---- MODULE Spec2Model ----
(***************************************************************************)
(* Verification model of ExperimentalServer (exphttp): the keep-alive      *)
(* decision, the response builder, the wire frame reader and the           *)
(* connection lifecycle driver with its listener and worker pool.          *)
(*                                                                         *)
(* Text values that the code lower-cases or compares character by          *)
(* character are sequences of one-character strings; opaque tokens are     *)
(* plain strings.                                                          *)
(***************************************************************************)
EXTENDS Integers, Sequences, FiniteSets, TLC

VARIABLES
    \* ---- keep-alive decision (server.py _should_keep_alive) ----
    kaIn,        \* the server mode and the parsed request under decision
    kaOut,       \* [done, value]: whether decided, and the decision
    \* ---- response builder (http/response.py HTTPResponse) ----
    resp,        \* the HTTPResponse object
    respOps,     \* number of calls made on the object so far
    wire,        \* the last serialization of the object
    \* ---- wire frame reader (server.py _receive_request) ----
    rdScript,    \* what the peer sends on this read: header bytes, body count
    peer,        \* what the peer has not delivered yet
    rd,          \* the reader's locals, its status and its return value
    \* ---- listener, worker pool and connection driver (server.py) ----
    cfg,         \* constructor options: opsec_mode, tls_enabled, auth,
                 \* max_workers
    running,     \* self.running
    listener,    \* accept loop: "listening", "accepting", "draining", "stopped"
    queue,       \* connections submitted to the executor, not yet started
    wk,          \* per worker thread: the connection it drives and its locals
    failures,    \* AuthRateLimiter._failures: unexpired failures per IP
    orphans,     \* accepted sockets dropped from the queue without close()
    connsLeft,   \* connections the peers will still open (-1: any number)
    reqsLeft,    \* requests the peers will still send
    \* ---- decoy tokens and method dispatch (server.py) ----
    ds,          \* the mode, self.opsec_methods, and one lookup with its result
    \* ---- WebSocket layer (websocket.py, server.py _handle_notepad_ws) ----
    up,          \* check_websocket_upgrade: the headers and the verdict
    fr,          \* parse_ws_frame / build_ws_frame: one buffer and the result
    wsl,         \* the open loop: bytes in flight, buf, what was sent and handled
    \* ---- rate limiter, upload store, request parser ----
    lim,         \* AuthRateLimiter: the clock, _failures, and the last call
    store,       \* the uploads directory and the uploads under way
    rq           \* HTTPRequest._parse: the raw bytes and the parsed request

respVars == <<resp, respOps, wire>>
kaVars == <<kaIn, kaOut>>
rdVars == <<rdScript, peer, rd>>
srvVars == <<cfg, running, listener, queue, wk, failures, orphans,
             connsLeft, reqsLeft>>
dispVars == <<ds>>
wsVars == <<up, fr, wsl>>
svcVars == <<lim, store, rq>>
vars == <<kaIn, kaOut, resp, respOps, wire, rdScript, peer, rd,
          cfg, running, listener, queue, wk, failures, orphans,
          connsLeft, reqsLeft, ds, up, fr, wsl, lim, store, rq>>

None == "None"

(***************************************************************************)
(* Text helpers: str.lower() on sequences of characters.                   *)
(***************************************************************************)
UpperCase == <<"A","B","C","D","E","F","G","H","I","J","K","L","M",
               "N","O","P","Q","R","S","T","U","V","W","X","Y","Z">>
LowerCase == <<"a","b","c","d","e","f","g","h","i","j","k","l","m",
               "n","o","p","q","r","s","t","u","v","w","x","y","z">>

LowerChar(c) ==
    IF \E i \in DOMAIN UpperCase : UpperCase[i] = c
    THEN LowerCase[CHOOSE i \in DOMAIN UpperCase : UpperCase[i] = c]
    ELSE c

Lower(s) == [i \in DOMAIN s |-> LowerChar(s[i])]

Space == <<" ">>[1]
RECURSIVE Strip(_)
Strip(s) ==
    IF s = <<>> THEN s
    ELSE IF s[1] = Space THEN Strip(Tail(s))
    ELSE IF s[Len(s)] = Space THEN Strip(SubSeq(s, 1, Len(s) - 1))
    ELSE s

\* s is an initial part of t
IsPrefix(s, t) == Len(s) <= Len(t) /\ s = SubSeq(t, 1, Len(s))

\* dict.get(key, default) on a dict modelled as a function
DictGet(d, key, default) == IF key \in DOMAIN d THEN d[key] ELSE default

\* dict[key] = value
DictSet(d, key, value) ==
    [k \in DOMAIN d \cup {key} |-> IF k = key THEN value ELSE d[k]]

EmptyDict == [k \in {} |-> None]

(***************************************************************************)
(* Keep-alive decision.                                                    *)
(***************************************************************************)
sClose == <<"c","l","o","s","e">>
sKeepAlive == <<"k","e","e","p","-","a","l","i","v","e">>

\* variant: the header value is compared without lower-casing it
ShouldKeepAlive_CaseSensitive(opsec_mode, request) ==
    LET conn_header == DictGet(request.headers, "connection", <<>>)
    IN  IF opsec_mode THEN FALSE
        ELSE IF conn_header = sClose THEN FALSE
        ELSE IF request.http_version = "HTTP/1.1" THEN conn_header # sClose
        ELSE conn_header = sKeepAlive

ShouldKeepAlive(opsec_mode, request) ==
    LET conn_header == Lower(DictGet(request.headers, "connection", <<>>))
    IN  IF opsec_mode THEN FALSE
        ELSE IF conn_header = sClose THEN FALSE
        ELSE IF request.http_version = "HTTP/1.1" THEN conn_header # sClose
        ELSE conn_header = sKeepAlive

\* Sample header values and versions the decision is tried on.
ConnValues ==
    { sClose, <<"C","l","o","s","e">>, <<"C","L","O","S","E">>,
      sKeepAlive, <<"K","e","e","p","-","A","l","i","v","e">>,
      <<"K","E","E","P","-","A","L","I","V","E">>,
      <<"u","p","g","r","a","d","e">>, <<"c","l","o","s","e","d">>, <<>> }

Versions == {"HTTP/1.1", "HTTP/1.0", "HTTP/2.0", "http/1.1", ""}

KaRequests ==
    [http_version : Versions, headers : {EmptyDict}]
    \cup { [http_version |-> v, headers |-> [k \in {"connection"} |-> c]] :
             v \in Versions, c \in ConnValues }

KaIdle == [opsec_mode |-> FALSE,
           request |-> [http_version |-> "", headers |-> EmptyDict]]

KaPending == [done |-> FALSE, value |-> FALSE]

DecideKeepAlive ==
    /\ ~kaOut.done
    /\ kaOut' = [done |-> TRUE,
                 value |-> ShouldKeepAlive(kaIn.opsec_mode, kaIn.request)]
    /\ UNCHANGED kaIn

(***************************************************************************)
(* Response builder.                                                       *)
(***************************************************************************)
Version == "2.0.0"
KEEP_ALIVE_TIMEOUT == 15
KEEP_ALIVE_MAX == 100

\* Files a handler may stream, with the size stat() reports.
Files == {"f0", "fBig"}
FileSize(p) == IF p = "f0" THEN 0 ELSE 70000

HTTPResponse(status_code) ==
    [status_code |-> status_code, headers |-> EmptyDict,
     body |-> <<>>, stream_path |-> None]

set_header(r, key, value) ==
    [r EXCEPT !.headers = DictSet(r.headers, key, value)]

set_body(r, body, content_type) ==
    set_header(
        set_header([r EXCEPT !.body = body], "Content-Type", content_type),
        "Content-Length", ToString(Len(body)))

set_file(r, file_path, content_type) ==
    set_header(
        set_header([r EXCEPT !.stream_path = file_path],
                   "Content-Type", content_type),
        "Content-Length", ToString(FileSize(file_path)))

FullMethods == "GET, POST, PUT, PATCH, FETCH, INFO, PING, NONE, NOTE, OPTIONS"
OpsecMethods == "GET, POST, PUT, PATCH, OPTIONS"
ExposeHeaders ==
    "X-File-Name, X-File-Size, X-File-Path, X-Upload-Status, X-Fetch-Status, X-Ping-Response"

\* variant: the header is written whether or not the caller has set it
SetIfAbsent_Always(r, key, value) == set_header(r, key, value)

SetIfAbsent(r, key, value) ==
    IF key \in DOMAIN r.headers THEN r ELSE set_header(r, key, value)

set_cors_headers(r, opsec_mode, cors_origin) ==
    LET r1 == SetIfAbsent(r, "Access-Control-Allow-Origin", cors_origin)
        r2 == SetIfAbsent(r1, "Access-Control-Allow-Methods",
                          IF opsec_mode THEN OpsecMethods ELSE FullMethods)
        r3 == SetIfAbsent(r2, "Access-Control-Allow-Headers",
                          "Content-Type, X-File-Name, X-Session-Id")
    IN  IF opsec_mode THEN r3
        ELSE SetIfAbsent(r3, "Access-Control-Expose-Headers", ExposeHeaders)

\* variant: the Keep-Alive header is written whatever the flag
finalize_headers_AlwaysAdvertise(r, opsec_mode, cors_origin, keep_alive, keep_alive_timeout, keep_alive_max) ==
    LET r1 == set_header(r, "Server",
                         IF opsec_mode THEN "nginx"
                         ELSE "ExperimentalHTTPServer/" \o Version)
        r2 == set_header(r1, "Date", "now")
        r3 == set_header(
                set_header(r2, "Connection",
                           IF keep_alive THEN "keep-alive" ELSE "close"),
                "Keep-Alive",
                "timeout=" \o ToString(keep_alive_timeout)
                   \o ", max=" \o ToString(keep_alive_max))
    IN  set_cors_headers(r3, opsec_mode, cors_origin)

finalize_headers(r, opsec_mode, cors_origin, keep_alive, keep_alive_timeout, keep_alive_max) ==
    LET r1 == set_header(r, "Server",
                         IF opsec_mode THEN "nginx"
                         ELSE "ExperimentalHTTPServer/" \o Version)
        r2 == set_header(r1, "Date", "now")
        r3 == IF keep_alive
              THEN set_header(
                     set_header(r2, "Connection", "keep-alive"),
                     "Keep-Alive",
                     "timeout=" \o ToString(keep_alive_timeout)
                        \o ", max=" \o ToString(keep_alive_max))
              ELSE set_header(r2, "Connection", "close")
    IN  set_cors_headers(r3, opsec_mode, cors_origin)

\* build_headers: the object after _finalize_headers; its status code and
\* headers are what the header block carries.
build_headers(r, opsec_mode, cors_origin, keep_alive, keep_alive_timeout, keep_alive_max) ==
    finalize_headers(r, opsec_mode, cors_origin, keep_alive,
                     keep_alive_timeout, keep_alive_max)

\* build: header block followed by the in-memory body.
build(r, opsec_mode, cors_origin, keep_alive, keep_alive_timeout, keep_alive_max) ==
    build_headers(r, opsec_mode, cors_origin, keep_alive,
                  keep_alive_timeout, keep_alive_max)

MaxRespOps == 3

Bodies == {<<>>, <<"b">>, <<"b", "b">>}
ContentTypes == {"text/plain", "application/json"}
CallerHeaders == {<<"Server", "custom">>, <<"Allow", "GET">>,
                  <<"Access-Control-Allow-Origin", "null">>}

RespSetHeader ==
    /\ respOps < MaxRespOps
    /\ \E h \in CallerHeaders : resp' = set_header(resp, h[1], h[2])
    /\ respOps' = respOps + 1
    /\ UNCHANGED wire

RespSetBody ==
    /\ respOps < MaxRespOps
    /\ \E b \in Bodies, ct \in ContentTypes : resp' = set_body(resp, b, ct)
    /\ respOps' = respOps + 1
    /\ UNCHANGED wire

RespSetFile ==
    /\ respOps < MaxRespOps
    /\ \E f \in Files : resp' = set_file(resp, f, "application/octet-stream")
    /\ respOps' = respOps + 1
    /\ UNCHANGED wire

\* build_headers()/build() called with a keep_alive flag; finalization
\* mutates the object's headers, the serialization is what goes to the wire.
RespBuild ==
    /\ respOps < MaxRespOps
    /\ \E opsec_mode \in BOOLEAN, keep_alive \in BOOLEAN :
         LET r == build(resp, opsec_mode, "*", keep_alive,
                        KEEP_ALIVE_TIMEOUT, KEEP_ALIVE_MAX)
         IN  /\ resp' = r
             /\ wire' = [built |-> TRUE,
                         status_code |-> r.status_code,
                         headers |-> r.headers,
                         body |-> r.body,
                         streamed |-> r.stream_path # None,
                         keep_alive |-> keep_alive,
                         hadKeepAliveHeader |-> "Keep-Alive" \in DOMAIN resp.headers]
    /\ respOps' = respOps + 1

NoWire == [built |-> FALSE, status_code |-> 0, headers |-> EmptyDict,
           body |-> <<>>, streamed |-> FALSE, keep_alive |-> FALSE,
           hadKeepAliveHeader |-> FALSE]


(***************************************************************************)
(* Wire frame reader.  Received data is the header bytes up to and         *)
(* including the first blank line, as a sequence of bytes, followed by a   *)
(* count of the bytes after it.  A byte is "x" (any header byte), "r"/"n"  *)
(* (CR/LF), or a token standing for the text "Content-Length: <value>".    *)
(***************************************************************************)
max_upload_size == 2
RECV_SIZE == 65536
CAP_SLACK == 65536
HEADER_TIMEOUT == 30
BODY_TIMEOUT == 300
RECV_TIMEOUT == 5

CLTokens == {"L0", "L1", "L3", "L70000", "Lbad"}

\* int(line.split(":")[1].strip()), ValueError -> 0
CLValue(tok) ==
    CASE tok = "L0" -> 0
      [] tok = "L1" -> 1
      [] tok = "L3" -> 3
      [] tok = "L70000" -> 70000
      [] OTHER -> 0

CRLF == <<"r", "n">>
CRLFCRLF == <<"r", "n", "r", "n">>

\* bytes.find(needle): 0-based position of the first occurrence, or -1
Find(data, needle) ==
    LET hits == { i \in 0..(Len(data) - Len(needle)) :
                    SubSeq(data, i + 1, i + Len(needle)) = needle }
    IN  IF hits = {} THEN -1
        ELSE CHOOSE i \in hits : \A j \in hits : i <= j

RECURSIVE Split(_, _)
\* str.split(sep)
Split(data, sep) ==
    LET pos == Find(data, sep)
    IN  IF pos = -1 THEN <<data>>
        ELSE <<SubSeq(data, 1, pos)>>
                 \o Split(SubSeq(data, pos + Len(sep) + 1, Len(data)), sep)

\* line.lower().startswith("content-length:")
IsContentLengthLine(line) == Len(line) > 0 /\ line[1] \in CLTokens

\* the for loop over the header lines: first matching line decides
ScanContentLength(headers_part) ==
    LET lines == Split(headers_part, CRLF)
        hits == { i \in DOMAIN lines : IsContentLengthLine(lines[i]) }
    IN  IF hits = {} THEN 0
        ELSE LET first == CHOOSE i \in hits : \A j \in hits : i <= j
             IN  IF Len(lines[first]) = 1 THEN CLValue(lines[first][1]) ELSE 0

NoData == [head |-> <<>>, body |-> 0]
DataLen(d) == Len(d.head) + d.body

\* idle_timeout=None is written NoIdle
NoIdle == -1

\* locals of _receive_request before the loop; headers_at is no local of
\* the code, it keeps the elapsed time at which headers_received was set
ReaderStart(idle_timeout) ==
    [chunks |-> NoData, total_size |-> 0, elapsed |-> 0,
     timeout |-> IF idle_timeout = NoIdle THEN RECV_TIMEOUT ELSE idle_timeout,
     idle_timeout |-> idle_timeout,
     headers_received |-> FALSE, content_length |-> 0, header_end_pos |-> 0,
     headers_at |-> 0, first_recv |-> TRUE, state |-> "reading", result |-> NoData]

ReaderReturn(r, result) == [r EXCEPT !.state = "returned", !.result = result]

\* variant: the body phase has no budget
WithinBudget_NoBodyBudget(r) ==
    ~(~r.headers_received /\ r.elapsed > HEADER_TIMEOUT)

\* loop-top budget checks pass
WithinBudget(r) ==
    /\ ~(~r.headers_received /\ r.elapsed > HEADER_TIMEOUT)
    /\ ~(r.headers_received /\ r.elapsed > HEADER_TIMEOUT + BODY_TIMEOUT)

\* variant: no limit on the bytes received
OnChunk_NoCap(r, chunk, delay) ==
    LET timeout1 == IF r.first_recv /\ r.idle_timeout # NoIdle
                    THEN RECV_TIMEOUT ELSE r.timeout
        first1 == IF r.first_recv /\ r.idle_timeout # NoIdle
                  THEN FALSE ELSE r.first_recv
        data == [head |-> r.chunks.head \o chunk.head,
                 body |-> r.chunks.body + chunk.body]
        total == r.total_size + DataLen(chunk)
        r1 == [r EXCEPT !.chunks = data, !.total_size = total,
                        !.elapsed = r.elapsed + delay,
                        !.timeout = timeout1, !.first_recv = first1]
    IN  IF FALSE
        THEN ReaderReturn(r1, NoData)
        ELSE IF ~r.headers_received
        THEN IF Find(data.head, CRLFCRLF) # -1
             THEN LET pos == Find(data.head, CRLFCRLF)
                      cl == ScanContentLength(SubSeq(data.head, 1, pos))
                      r2 == [r1 EXCEPT !.header_end_pos = pos,
                                       !.content_length = cl,
                                       !.headers_received = TRUE,
                                       !.headers_at = r1.elapsed]
                  IN  IF total - pos - 4 >= cl
                      THEN ReaderReturn(r2, data) ELSE r2
             ELSE r1
        ELSE IF total - r.header_end_pos - 4 >= r.content_length
             THEN ReaderReturn(r1, data) ELSE r1

\* one loop iteration in which recv() returned a non-empty chunk
OnChunk(r, chunk, delay) ==
    LET timeout1 == IF r.first_recv /\ r.idle_timeout # NoIdle
                    THEN RECV_TIMEOUT ELSE r.timeout
        first1 == IF r.first_recv /\ r.idle_timeout # NoIdle
                  THEN FALSE ELSE r.first_recv
        data == [head |-> r.chunks.head \o chunk.head,
                 body |-> r.chunks.body + chunk.body]
        total == r.total_size + DataLen(chunk)
        r1 == [r EXCEPT !.chunks = data, !.total_size = total,
                        !.elapsed = r.elapsed + delay,
                        !.timeout = timeout1, !.first_recv = first1]
    IN  IF total > max_upload_size + CAP_SLACK
        THEN ReaderReturn(r1, NoData)
        ELSE IF ~r.headers_received
        THEN IF Find(data.head, CRLFCRLF) # -1
             THEN LET pos == Find(data.head, CRLFCRLF)
                      cl == ScanContentLength(SubSeq(data.head, 1, pos))
                      r2 == [r1 EXCEPT !.header_end_pos = pos,
                                       !.content_length = cl,
                                       !.headers_received = TRUE,
                                       !.headers_at = r1.elapsed]
                  IN  IF total - pos - 4 >= cl
                      THEN ReaderReturn(r2, data) ELSE r2
             ELSE r1
        ELSE IF total - r.header_end_pos - 4 >= r.content_length
             THEN ReaderReturn(r1, data) ELSE r1

\* what one recv() can deliver from what the peer still has to send
ChunksOf(p) ==
    { c \in [head : {SubSeq(p.head, 1, k) : k \in 0..Len(p.head)},
             body : {0, 1, p.body, RECV_SIZE - Len(p.head)}] :
        /\ c.body <= p.body
        /\ c.body = 1 => p.body <= 3
        /\ c.body > 1 => p.body - c.body = 0 \/ DataLen(c) = RECV_SIZE
        /\ DataLen(c) \in 1..RECV_SIZE
        /\ c.body > 0 => c.head = p.head }

RecvChunk ==
    /\ rd.state = "reading" /\ WithinBudget(rd)
    /\ \E chunk \in ChunksOf(peer), delay \in {0, rd.timeout - 1} :
         /\ rd' = OnChunk(rd, chunk, delay)
         /\ peer' = [head |-> SubSeq(peer.head, Len(chunk.head) + 1,
                                     Len(peer.head)),
                     body |-> peer.body - chunk.body]
    /\ UNCHANGED rdScript

\* recv() returned b"": the peer closed its side
RecvEof ==
    /\ rd.state = "reading" /\ WithinBudget(rd)
    /\ rd' = ReaderReturn(rd, rd.chunks)
    /\ UNCHANGED <<rdScript, peer>>

\* recv() raised TimeoutError after the socket timeout
RecvTimeout ==
    /\ rd.state = "reading" /\ WithinBudget(rd)
    /\ LET r1 == [rd EXCEPT !.elapsed = rd.elapsed + rd.timeout]
       IN  rd' = IF ~rd.headers_received
                 THEN ReaderReturn(r1, r1.chunks) ELSE r1
    /\ UNCHANGED <<rdScript, peer>>

\* recv() raised another OSError: it is not caught in _receive_request
RecvError ==
    /\ rd.state = "reading" /\ WithinBudget(rd)
    /\ rd' = [rd EXCEPT !.state = "raised"]
    /\ UNCHANGED <<rdScript, peer>>

HeaderBudgetExceeded ==
    /\ rd.state = "reading"
    /\ ~rd.headers_received /\ rd.elapsed > HEADER_TIMEOUT
    /\ rd' = ReaderReturn(rd, NoData)
    /\ UNCHANGED <<rdScript, peer>>

BodyBudgetExceeded ==
    /\ rd.state = "reading"
    /\ rd.headers_received /\ rd.elapsed > HEADER_TIMEOUT + BODY_TIMEOUT
    /\ rd' = ReaderReturn(rd, NoData)
    /\ UNCHANGED <<rdScript, peer>>

\* What a peer may send for one read: a request line, an optional
\* Content-Length line and the blank line (or a header block it never
\* completes), then some number of further bytes.
RequestLine == <<"x", "r", "n">>
HeaderBlocks ==
    { RequestLine \o CRLF } \cup
    { RequestLine \o <<t>> \o CRLFCRLF : t \in CLTokens }
PartialBlocks == { <<"x">>, RequestLine \o <<"L1">> \o CRLF }
BodyCounts == {0, 1, 2, 3, 70000}

Scripts ==
    [head : HeaderBlocks, body : BodyCounts]
    \cup [head : PartialBlocks, body : {0}]

(***************************************************************************)
(* Listener, worker pool and connection lifecycle driver.                  *)
(***************************************************************************)
MaxWorkers == 2
MaxQueue == 1
Workers == 1..MaxWorkers
IPs == {"ip1", "ip2"}
max_attempts == 5
STREAM_CHUNK == 65536

\* requests as the driver sees them after parsing
ReqVersions == {"HTTP/1.1", "HTTP/1.0"}
ReqConn == {EmptyDict} \cup
           {[k \in {"connection"} |-> c] : c \in {sClose, sKeepAlive}}
\* method and declared body length, one request per path through the size
\* check and the handler lookup: a registered method without and with an
\* oversized body, an unregistered method without and with a body
ReqShapes ==
    { [method |-> "GET", content_length |-> 0],
      [method |-> "GET", content_length |-> max_upload_size + 1],
      [method |-> "BOGUS", content_length |-> 0],
      [method |-> "BOGUS", content_length |-> 1] }

NoReq == [authOK |-> FALSE, upgrade |-> FALSE, content_length |-> 0,
          method |-> ""]

IdleWorker ==
    [pc |-> "idle", ip |-> "", sock |-> "none", requests_on_conn |-> 0,
     req |-> NoReq, want_keep_alive |-> FALSE, use_keep_alive |-> FALSE,
     out |-> <<>>, handler |-> FALSE, upgraded |-> FALSE, fault |-> FALSE,
     ret |-> "none", exit |-> "none"]

\* one write to the socket: what was written and whether sendall returned
Entry(kind, r, ok) ==
    [kind |-> kind, status |-> r.status_code,
     conn |-> DictGet(r.headers, "Connection", ""),
     keepAliveHdr |-> "Keep-Alive" \in DOMAIN r.headers,
     challenge |-> "WWW-Authenticate" \in DOMAIN r.headers,
     allow |-> DictGet(r.headers, "Allow", None),
     acam |-> DictGet(r.headers, "Access-Control-Allow-Methods", None),
     offset |-> 0, size |-> 0, ok |-> ok]

RawEntry(kind, ok) ==
    [kind |-> kind, status |-> 0, conn |-> "", keepAliveHdr |-> FALSE,
     challenge |-> FALSE, allow |-> None, acam |-> None,
     offset |-> 0, size |-> 0, ok |-> ok]

JsonError(status) == set_body(HTTPResponse(status), <<"b">>, "application/json")

\* response.build(**_bld)
BuildBld(r, opsec_mode, use_keep_alive, request_num) ==
    build(r, opsec_mode, "*", use_keep_alive, KEEP_ALIVE_TIMEOUT,
          IF use_keep_alive THEN KEEP_ALIVE_MAX - request_num
          ELSE KEEP_ALIVE_MAX)

\* use_keep_alive: vetoed once the connection has served its maximum
UseKeepAlive_OffByOne(want_keep_alive, request_num) ==
    want_keep_alive /\ KEEP_ALIVE_MAX - request_num >= 0

UseKeepAlive(want_keep_alive, request_num) ==
    want_keep_alive /\ KEEP_ALIVE_MAX - request_num > 0

\* variant: the except branch writes nothing
FaultPath_Silent(out, opsec_mode, use_keep_alive, request_num, handler, upgraded) ==
    { [out |-> out, ret |-> FALSE, fault |-> TRUE, handler |-> handler,
       upgraded |-> upgraded, ws |-> FALSE] }

\* the except branch of _process_request: generic 500, send errors swallowed
FaultPath(out, opsec_mode, use_keep_alive, request_num, handler, upgraded) ==
    { [out |-> Append(out, Entry("response",
                  BuildBld(JsonError(500), opsec_mode, use_keep_alive,
                           request_num), ok)),
       ret |-> FALSE, fault |-> TRUE, handler |-> handler,
       upgraded |-> upgraded, ws |-> FALSE] : ok \in BOOLEAN }

\* variant: a failed write is ignored
SendAndReturn_IgnoresError(r, opsec_mode, use_keep_alive, request_num, keep, handler) ==
    LET built == BuildBld(r, opsec_mode, use_keep_alive, request_num)
    IN  { [out |-> <<Entry("response", built, ok)>>, ret |-> keep,
           fault |-> FALSE, handler |-> handler, upgraded |-> FALSE,
           ws |-> FALSE] : ok \in BOOLEAN }

\* sendall(response.build(**_bld)) followed by "return keep"
SendAndReturn(r, opsec_mode, use_keep_alive, request_num, keep, handler) ==
    LET built == BuildBld(r, opsec_mode, use_keep_alive, request_num)
    IN  { [out |-> <<Entry("response", built, TRUE)>>, ret |-> keep,
           fault |-> FALSE, handler |-> handler, upgraded |-> FALSE,
           ws |-> FALSE] }
        \cup FaultPath(<<Entry("response", built, FALSE)>>, opsec_mode,
                       use_keep_alive, request_num, handler, FALSE)

\* number of 65536-byte reads until f.read returns b""
NumChunks(size) == (size + STREAM_CHUNK - 1) \div STREAM_CHUNK

\* sendall(chunk) for the i-th f.read(65536) of a file of size bytes
ChunkEntry(size, i, ok) ==
    [RawEntry("chunk", ok) EXCEPT
       !.offset = (i - 1) * STREAM_CHUNK,
       !.size = IF size - (i - 1) * STREAM_CHUNK < STREAM_CHUNK
                THEN size - (i - 1) * STREAM_CHUNK ELSE STREAM_CHUNK]

\* the first k chunks of the file, each one written
Chunks(size, k) == [i \in 1..k |-> ChunkEntry(size, i, TRUE)]

\* variant: the streamed response honours the keep-alive decision
StreamAndReturn_KeepsAlive(r, opsec_mode, use_keep_alive, request_num) ==
    LET hdr == build_headers(r, opsec_mode, "*", use_keep_alive,
                             KEEP_ALIVE_TIMEOUT,
                             IF use_keep_alive
                             THEN KEEP_ALIVE_MAX - request_num
                             ELSE KEEP_ALIVE_MAX)
        size == FileSize(r.stream_path)
        n == NumChunks(size)
    IN  { [out |-> <<Entry("headers", hdr, TRUE)>> \o Chunks(size, n),
           ret |-> use_keep_alive, fault |-> FALSE, handler |-> TRUE,
           upgraded |-> FALSE, ws |-> FALSE] }
        \cup FaultPath(<<Entry("headers", hdr, FALSE)>>, opsec_mode,
                       use_keep_alive, request_num, TRUE, FALSE)
        \cup UNION { FaultPath(<<Entry("headers", hdr, TRUE)>>
                                 \o Chunks(size, k),
                               opsec_mode, use_keep_alive, request_num,
                               TRUE, FALSE) : k \in 0..n }
        \cup UNION { FaultPath(<<Entry("headers", hdr, TRUE)>>
                                 \o Chunks(size, k)
                                 \o <<ChunkEntry(size, k + 1, FALSE)>>,
                               opsec_mode, use_keep_alive, request_num,
                               TRUE, FALSE) : k \in 0..(n - 1) }

\* the streaming branch: header block with keep_alive forced off, then the
\* file in chunks; any failure on the way goes to the except branch
StreamAndReturn(r, opsec_mode, use_keep_alive, request_num) ==
    LET hdr == build_headers(r, opsec_mode, "*", FALSE, KEEP_ALIVE_TIMEOUT,
                             IF use_keep_alive
                             THEN KEEP_ALIVE_MAX - request_num
                             ELSE KEEP_ALIVE_MAX)
        size == FileSize(r.stream_path)
        n == NumChunks(size)
    IN  { [out |-> <<Entry("headers", hdr, TRUE)>> \o Chunks(size, n),
           ret |-> FALSE, fault |-> FALSE, handler |-> TRUE,
           upgraded |-> FALSE, ws |-> FALSE] }
        \cup FaultPath(<<Entry("headers", hdr, FALSE)>>, opsec_mode,
                       use_keep_alive, request_num, TRUE, FALSE)
        \cup UNION { FaultPath(<<Entry("headers", hdr, TRUE)>>
                                 \o Chunks(size, k),
                               opsec_mode, use_keep_alive, request_num,
                               TRUE, FALSE) : k \in 0..n }
        \cup UNION { FaultPath(<<Entry("headers", hdr, TRUE)>>
                                 \o Chunks(size, k)
                                 \o <<ChunkEntry(size, k + 1, FALSE)>>,
                               opsec_mode, use_keep_alive, request_num,
                               TRUE, FALSE) : k \in 0..(n - 1) }

\* the keys of self.method_handlers in insertion order
method_handler_keys ==
    <<"GET", "POST", "PUT", "PATCH", "OPTIONS", "FETCH", "INFO", "PING",
      "NONE", "NOTE", "SMUGGLE">>

\* self.method_handlers: method token -> bound handler
method_handlers ==
    [m \in {method_handler_keys[i] : i \in DOMAIN method_handler_keys} |->
       CASE m = "GET" -> "handle_get"
         [] m = "POST" -> "handle_post"
         [] m = "PUT" -> "handle_none"
         [] m = "PATCH" -> "handle_patch"
         [] m = "OPTIONS" -> "handle_options"
         [] m = "FETCH" -> "handle_fetch"
         [] m = "INFO" -> "handle_info"
         [] m = "PING" -> "handle_ping"
         [] m = "NONE" -> "handle_none"
         [] m = "NOTE" -> "handle_note"
         [] m = "SMUGGLE" -> "handle_smuggle"]

\* self.opsec_methods as generated at the start the driver is observed in
opsec_methods ==
    [upload |-> "CHECKDATA", download |-> "SYNCSTATUS", info |-> "VERIFY",
     ping |-> "QUERYITEM", notepad |-> "REPORTINFO"]

\* _get_opsec_handler for the decoy table tbl: the handler, or None
get_opsec_handler(tbl, method, has_body) ==
    IF method \in DOMAIN method_handlers THEN method_handlers[method]
    ELSE IF method = DictGet(tbl, "upload", None) THEN "handle_opsec_upload"
    ELSE IF method = DictGet(tbl, "download", None) THEN "handle_fetch"
    ELSE IF method = DictGet(tbl, "info", None) THEN "handle_info"
    ELSE IF method = DictGet(tbl, "ping", None) THEN "handle_ping"
    ELSE IF method = DictGet(tbl, "notepad", None) THEN "handle_note"
    ELSE IF has_body THEN "handle_opsec_upload"
    ELSE None

\* variant: the body fallback applies in every mode
ResolveHandler_FallbackAlways(opsec_mode, tbl, method, has_body) ==
    IF opsec_mode THEN get_opsec_handler(tbl, method, has_body)
    ELSE IF method \in DOMAIN method_handlers THEN method_handlers[method]
    ELSE IF has_body THEN "handle_opsec_upload"
    ELSE None

\* the handler lookup in _process_request
ResolveHandler(opsec_mode, tbl, method, has_body) ==
    IF opsec_mode THEN get_opsec_handler(tbl, method, has_body)
    ELSE DictGet(method_handlers, method, None)

RECURSIVE Join(_, _)
\* sep.join(seq)
Join(seq, sep) ==
    IF seq = <<>> THEN ""
    ELSE IF Len(seq) = 1 THEN seq[1]
    ELSE seq[1] \o sep \o Join(Tail(seq), sep)

\* variant: the 405 carries no Allow header
method_not_allowed_NoAllow == JsonError(405)

\* BaseHandler._method_not_allowed
method_not_allowed ==
    set_header(JsonError(405), "Allow", Join(method_handler_keys, ", "))

\* the response of _process_request when the lookup gave no handler
MissResponse(opsec_mode) ==
    IF opsec_mode THEN JsonError(404) ELSE method_not_allowed

\* what a handler may do with a request
HandlerResults == {"body", "raise"} \cup Files

\* variant: the size check is missing
ProcessOutcomes_NoSizeCheck(req, opsec_mode, use_keep_alive, request_num) ==
    IF req.upgrade
    THEN \* _handle_notepad_ws: handshake, then the open loop
         { [out |-> <<RawEntry("handshake", ok)>>, ret |-> FALSE,
            fault |-> FALSE, handler |-> FALSE, upgraded |-> TRUE,
            ws |-> ok] : ok \in BOOLEAN }
    ELSE IF FALSE
    THEN SendAndReturn(JsonError(413), opsec_mode, use_keep_alive,
                       request_num, FALSE, FALSE)
    ELSE IF ResolveHandler(opsec_mode, opsec_methods, req.method, req.content_length > 0) # None
    THEN UNION {
           IF h = "raise"
           THEN FaultPath(<<>>, opsec_mode, use_keep_alive, request_num,
                          TRUE, FALSE)
           ELSE IF h = "body"
           THEN SendAndReturn(set_body(HTTPResponse(200), <<"b">>, "text/html"),
                              opsec_mode, use_keep_alive, request_num,
                              use_keep_alive, TRUE)
           ELSE StreamAndReturn(set_file(HTTPResponse(200), h,
                                         "application/octet-stream"),
                                opsec_mode, use_keep_alive, request_num)
           : h \in HandlerResults }
    ELSE SendAndReturn(MissResponse(opsec_mode), opsec_mode, use_keep_alive,
                       request_num, use_keep_alive, FALSE)

\* _process_request from the upgrade check to its return
ProcessOutcomes(req, opsec_mode, use_keep_alive, request_num) ==
    IF req.upgrade
    THEN \* _handle_notepad_ws: handshake, then the open loop
         { [out |-> <<RawEntry("handshake", ok)>>, ret |-> FALSE,
            fault |-> FALSE, handler |-> FALSE, upgraded |-> TRUE,
            ws |-> ok] : ok \in BOOLEAN }
    ELSE IF req.content_length > max_upload_size
    THEN SendAndReturn(JsonError(413), opsec_mode, use_keep_alive,
                       request_num, FALSE, FALSE)
    ELSE IF ResolveHandler(opsec_mode, opsec_methods, req.method, req.content_length > 0) # None
    THEN UNION {
           IF h = "raise"
           THEN FaultPath(<<>>, opsec_mode, use_keep_alive, request_num,
                          TRUE, FALSE)
           ELSE IF h = "body"
           THEN SendAndReturn(set_body(HTTPResponse(200), <<"b">>, "text/html"),
                              opsec_mode, use_keep_alive, request_num,
                              use_keep_alive, TRUE)
           ELSE StreamAndReturn(set_file(HTTPResponse(200), h,
                                         "application/octet-stream"),
                                opsec_mode, use_keep_alive, request_num)
           : h \in HandlerResults }
    ELSE SendAndReturn(MissResponse(opsec_mode), opsec_mode, use_keep_alive,
                       request_num, use_keep_alive, FALSE)

\* AuthRateLimiter
is_blocked_OffByOne(f, ip) == f[ip] > max_attempts

is_blocked(f, ip) == f[ip] >= max_attempts
record_failure(f, ip) == [f EXCEPT ![ip] = @ + 1]
reset(f, ip) == [f EXCEPT ![ip] = 0]

\* variant: no close when the loop was left by an exception
Leave_NoFinally(w, path) ==
    [w EXCEPT !.pc = "idle", !.exit = path,
              !.sock = IF path = "exception" THEN @ ELSE "closed"]

\* the worker leaves _handle_client: finally closes the socket
Leave(w, path) == [w EXCEPT !.pc = "idle", !.sock = "closed", !.exit = path]

\* "while self.running" at the top of the driver's loop: on to
\* _receive_request, or out through finally
LoopTest(w) ==
    IF running THEN [w EXCEPT !.pc = "await"] ELSE Leave(w, "not_running")

\* variant: after the WebSocket handler the driver goes on reading
Apply_ReadsOnAfterUpgrade(w, o) ==
    LET w1 == [w EXCEPT !.out = o.out, !.handler = o.handler,
                        !.upgraded = o.upgraded, !.fault = o.fault,
                        !.ret = IF o.ret THEN "keep" ELSE "close"]
    IN  IF o.ws THEN LoopTest(w1)
        ELSE IF o.ret THEN LoopTest(w1)
        ELSE Leave(w1, "close")

\* apply the outcome of _process_request, the loop's "if not keep_alive"
\* and, when the connection is kept, the loop test
Apply(w, o) ==
    LET w1 == [w EXCEPT !.out = o.out, !.handler = o.handler,
                        !.upgraded = o.upgraded, !.fault = o.fault,
                        !.ret = IF o.ret THEN "keep" ELSE "close"]
    IN  IF o.ws THEN [w1 EXCEPT !.pc = "ws", !.ret = "none"]
        ELSE IF o.ret THEN LoopTest(w1)
        ELSE Leave(w1, "close")

\* the accept loop passes "while self.running" and blocks in sock.accept()
EnterAccept ==
    /\ running /\ listener = "listening"
    /\ listener' = "accepting"
    /\ UNCHANGED <<cfg, running, queue, wk, failures, orphans, connsLeft,
                   reqsLeft>>

\* sock.accept() returns a connection, which is submitted to the executor
Accept ==
    /\ listener = "accepting" /\ connsLeft # 0
    /\ Len(queue) < MaxQueue
    /\ queue' = Append(queue, "sock")
    /\ connsLeft' = IF connsLeft > 0 THEN connsLeft - 1 ELSE connsLeft
    /\ listener' = "listening"
    /\ UNCHANGED <<cfg, running, wk, failures, orphans, reqsLeft>>

\* sock.accept() times out after a second: back to the loop test
AcceptTimeout ==
    /\ listener = "accepting"
    /\ listener' = "listening"
    /\ UNCHANGED <<cfg, running, queue, wk, failures, orphans, connsLeft,
                   reqsLeft>>

\* stop() clears the flag
Stop ==
    /\ running /\ listener \in {"listening", "accepting"}
    /\ running' = FALSE
    /\ UNCHANGED <<cfg, listener, queue, wk, failures, orphans, connsLeft,
                   reqsLeft>>

\* the accept loop ends, by its loop test or by KeyboardInterrupt: the
\* finally block clears the flag and executor.shutdown(wait=True,
\* cancel_futures=True) cancels what is still queued
ShutdownExecutor ==
    /\ \/ listener = "listening" /\ ~running
       \/ listener \in {"listening", "accepting"} /\ running
    /\ running' = FALSE
    /\ listener' = "draining"
    /\ orphans' = orphans + Len(queue)
    /\ queue' = <<>>
    /\ UNCHANGED <<cfg, wk, failures, connsLeft, reqsLeft>>

\* shutdown returns once every worker has returned; sock.close()
ServerStopped ==
    /\ listener = "draining"
    /\ \A w \in Workers : wk[w].pc = "idle"
    /\ listener' = "stopped"
    /\ UNCHANGED <<cfg, running, queue, wk, failures, orphans, connsLeft,
                   reqsLeft>>

\* a pool thread starts _handle_client with the oldest queued socket and
\* its client_address (read nowhere before this point, so drawn here):
\* optional TLS handshake, then the first loop test
StartClient(w) ==
    /\ w <= cfg.max_workers
    /\ wk[w].pc = "idle" /\ queue # <<>>
    /\ \E ip \in IPs :
         LET fresh == [IdleWorker EXCEPT !.ip = ip, !.sock = "open"]
         IN  \/ wk' = [wk EXCEPT ![w] = LoopTest(fresh)]
             \/ /\ cfg.tls_enabled
                /\ \E path \in {"ssl_error", "exception"} :
                     wk' = [wk EXCEPT ![w] = Leave(fresh, path)]
    /\ queue' = Tail(queue)
    /\ UNCHANGED <<cfg, running, listener, failures, orphans, connsLeft,
                   reqsLeft>>

\* _receive_request returned nothing, or raised
RecvNothing(w) ==
    /\ wk[w].pc = "await"
    /\ \E path \in {"no_data", "exception"} :
         wk' = [wk EXCEPT ![w] = Leave(@, path)]
    /\ UNCHANGED <<cfg, running, listener, queue, failures, orphans,
                   connsLeft, reqsLeft>>

\* what _should_keep_alive answers for the requests a peer may send
KeepAliveWishes(opsec_mode) ==
    {ShouldKeepAlive(opsec_mode, [http_version |-> v, headers |-> h]) :
       v \in ReqVersions, h \in ReqConn}

\* _receive_request returned data: parse, decide keep-alive, rate-limit check
RecvRequest(w) ==
    /\ wk[w].pc = "await" /\ reqsLeft > 0
    /\ \E want \in KeepAliveWishes(cfg.opsec_mode), ok \in BOOLEAN,
          wants_ws \in BOOLEAN, shape \in ReqShapes :
         LET n == wk[w].requests_on_conn + 1
             use == UseKeepAlive(want, n)
             w1 == [wk[w] EXCEPT
                      !.requests_on_conn = n,
                      !.req = [authOK |-> ok, upgrade |-> wants_ws,
                               content_length |-> shape.content_length,
                               method |-> shape.method],
                      !.want_keep_alive = want, !.use_keep_alive = use,
                      !.out = <<>>, !.handler = FALSE, !.upgraded = FALSE,
                      !.fault = FALSE, !.ret = "none"]
         IN  /\ ~cfg.auth => ok
             /\ IF cfg.auth /\ is_blocked(failures, wk[w].ip)
                THEN \E o \in SendAndReturn(JsonError(429), cfg.opsec_mode,
                                            use, n, FALSE, FALSE) :
                       wk' = [wk EXCEPT ![w] = Apply(w1, o)]
                ELSE wk' = [wk EXCEPT ![w] =
                              [w1 EXCEPT !.pc = IF cfg.auth THEN "auth"
                                                ELSE "process"]]
    /\ reqsLeft' = reqsLeft - 1
    /\ UNCHANGED <<cfg, running, listener, queue, failures, orphans,
                   connsLeft>>

\* authenticator.authenticate, then record_failure and 401, or reset
Authenticate(w) ==
    /\ wk[w].pc = "auth"
    /\ IF wk[w].req.authOK
       THEN /\ failures' = reset(failures, wk[w].ip)
            /\ wk' = [wk EXCEPT ![w].pc = "process"]
       ELSE /\ failures' = record_failure(failures, wk[w].ip)
            /\ \E o \in SendAndReturn(
                          set_body(set_header(HTTPResponse(401),
                                              "WWW-Authenticate", "Basic"),
                                   <<"b">>, "application/json"),
                          cfg.opsec_mode, wk[w].use_keep_alive,
                          wk[w].requests_on_conn, FALSE, FALSE) :
                 wk' = [wk EXCEPT ![w] = Apply(@, o)]
    /\ UNCHANGED <<cfg, running, listener, queue, orphans, connsLeft,
                   reqsLeft>>

\* the rest of _process_request: upgrade check, size check, dispatch, send
Process(w) ==
    /\ wk[w].pc = "process"
    /\ \E o \in ProcessOutcomes(wk[w].req, cfg.opsec_mode,
                                wk[w].use_keep_alive,
                                wk[w].requests_on_conn) :
         wk' = [wk EXCEPT ![w] = Apply(@, o)]
    /\ UNCHANGED <<cfg, running, listener, queue, failures, orphans,
                   connsLeft, reqsLeft>>

\* the WebSocket open loop ends and with it _process_request returns
\* False; of what the loop wrote only the close frame of its finally block
\* is logged here (best effort)
WsLoopEnds(w) ==
    /\ wk[w].pc = "ws"
    /\ \E ok \in BOOLEAN :
         wk' = [wk EXCEPT ![w] =
                  Leave([@ EXCEPT !.out = Append(@, RawEntry("ws_close", ok)),
                                  !.ret = "close"], "close")]
    /\ UNCHANGED <<cfg, running, listener, queue, failures, orphans,
                   connsLeft, reqsLeft>>

\* failures older than the cooldown no longer count (time passes)
Expire ==
    /\ \E ip \in IPs, k \in 1..max_attempts :
         /\ failures[ip] >= k
         /\ failures' = [failures EXCEPT ![ip] = @ - k]
    /\ UNCHANGED <<cfg, running, listener, queue, wk, orphans, connsLeft,
                   reqsLeft>>

MaxReqs == 2
AuthReqs == 6

\* the server after start() has bound its socket and set running
InitServer ==
    /\ running = TRUE /\ listener = "listening" /\ queue = <<>>
    /\ wk = [w \in Workers |-> IdleWorker]
    /\ failures = [ip \in IPs |-> 0]
    /\ orphans = 0


(***************************************************************************)
(* Decoy tokens and method dispatch.                                       *)
(***************************************************************************)
\* config.py; the draws of secrets.choice are taken from these samples
OPSEC_METHOD_PREFIXES ==
    <<"CHECK", "SYNC", "VERIFY", "UPDATE", "QUERY",
      "REPORT", "SUBMIT", "VALIDATE", "PROCESS", "EXECUTE">>
OPSEC_METHOD_SUFFIXES ==
    <<"DATA", "STATUS", "INFO", "CONTENT", "RESOURCE",
      "ITEM", "OBJECT", "RECORD", "ENTRY", "">>
PrefixDraws == {OPSEC_METHOD_PREFIXES[i] : i \in {1, 2, 3}}
SuffixDraws == {OPSEC_METHOD_SUFFIXES[i] : i \in {1, 10}}

\* _random_method_name for the two draws
random_method_name(prefix, suffix) ==
    IF suffix # "" THEN prefix \o suffix ELSE prefix

MethodNames ==
    {random_method_name(p, x) : p \in PrefixDraws, x \in SuffixDraws}

\* the keys of self.opsec_methods
Operations == {"upload", "download", "info", "ping", "notepad"}

\* the handler of each logical operation
OperationHandler ==
    [op \in Operations |->
       CASE op = "upload" -> "handle_opsec_upload"
         [] op = "download" -> "handle_fetch"
         [] op = "info" -> "handle_info"
         [] op = "ping" -> "handle_ping"
         [] op = "notepad" -> "handle_note"]

NoLookup == [method |-> "", has_body |-> FALSE, handler |-> None, status |-> 0]

\* the constructor up to "self.opsec_methods = {}"
DsStart(opsec_mode) ==
    [opsec_mode |-> opsec_mode, opsec_methods |-> EmptyDict,
     phase |-> "init", lookup |-> NoLookup]

\* the constructor's "if opsec_mode: self._generate_opsec_methods()":
\* five independent draws
GenerateOpsecMethods ==
    /\ ds.phase = "init"
    /\ IF ds.opsec_mode
       THEN \E tbl \in [Operations -> MethodNames] :
              ds' = [ds EXCEPT !.opsec_methods = tbl, !.phase = "ready"]
       ELSE ds' = [ds EXCEPT !.phase = "ready"]

\* method tokens a request may carry: the registered ones, the decoy tokens
\* of this start, and tokens that are neither
DispatchMethods(tbl) ==
    DOMAIN method_handlers \cup {tbl[op] : op \in DOMAIN tbl}
      \cup {"BOGUS", "EXECUTEENTRY"}

\* the handler lookup of _process_request and, on a miss, its response;
\* status 0 stands for the response of the handler that ran
Dispatch ==
    /\ ds.phase = "ready"
    /\ \E method \in DispatchMethods(ds.opsec_methods), has_body \in BOOLEAN :
         LET handler == ResolveHandler(ds.opsec_mode, ds.opsec_methods,
                                       method, has_body)
         IN  ds' = [ds EXCEPT
                      !.phase = "done",
                      !.lookup = [method |-> method, has_body |-> has_body,
                                  handler |-> handler,
                                  status |-> IF handler = None
                                             THEN MissResponse(ds.opsec_mode).status_code
                                             ELSE 0]]

DsQuiet == ds = DsStart(FALSE)

(***************************************************************************)
(* WebSocket upgrade detection.  Header values are sequences of            *)
(* characters; a header that is absent is absent from the dict.            *)
(***************************************************************************)
sWebsocket == <<"w", "e", "b", "s", "o", "c", "k", "e", "t">>
sUpgrade == <<"u", "p", "g", "r", "a", "d", "e">>

\* check_websocket_upgrade on the parsed headers (keys already lower-case)
check_websocket_upgrade(headers) ==
    LET upgrade == Lower(DictGet(headers, "upgrade", <<>>))
        connection == Lower(DictGet(headers, "connection", <<>>))
        ws_key == DictGet(headers, "sec-websocket-key", <<>>)
    IN  /\ upgrade = sWebsocket
        /\ Find(connection, sUpgrade) # -1
        /\ Len(ws_key) > 0

Absent == <<"absent">>
UpgradeValues == {Absent, <<>>, sWebsocket, <<"W", "e", "b", "S", "o", "c", "k", "e", "t">>, <<"w", "e", "b", "s", "o", "c", "k", "e", "t", "s">>}
UpConnValues ==
    {Absent, sUpgrade, <<"U", "p", "g", "r", "a", "d", "e">>, <<"k", "e", "e", "p", "-", "a", "l", "i", "v", "e", ",", " ", "U", "p", "g", "r", "a", "d", "e">>, <<"k", "e", "e", "p", "-", "a", "l", "i", "v", "e">>,
     <<"u", "p", "g", "r", "a", "d", "e", "d">>, <<"n", "o", "-", "u", "p", "g", "r", "a", "d", "e">>}
KeyValues == {Absent, <<>>, <<"k">>}

\* the headers dict of a request carrying the three values
UpHeaders(u, c, k) ==
    [h \in {x \in {"upgrade", "connection", "sec-websocket-key"} :
              \/ x = "upgrade" /\ u # Absent
              \/ x = "connection" /\ c # Absent
              \/ x = "sec-websocket-key" /\ k # Absent} |->
       IF h = "upgrade" THEN u ELSE IF h = "connection" THEN c ELSE k]

UpStart(headers, on_route) ==
    [headers |-> headers, on_route |-> on_route, done |-> FALSE,
     upgraded |-> FALSE]

\* the upgrade test of _process_request:
\* request.path.startswith("/notes/ws") and check_websocket_upgrade(request)
DetectUpgrade ==
    /\ ~up.done
    /\ up' = [up EXCEPT !.done = TRUE,
                        !.upgraded = up.on_route
                                       /\ check_websocket_upgrade(up.headers)]

UpQuiet == up = UpStart(EmptyDict, FALSE)

(***************************************************************************)
(* WebSocket frames.  A buffer is a sequence of bytes 0..255.              *)
(***************************************************************************)
WS_TEXT == 1
WS_BINARY == 2
WS_CLOSE == 8
WS_PING == 9
WS_PONG == 10

RECURSIVE Xor(_, _)
\* a ^ b on non-negative integers
Xor(a, b) ==
    IF a = 0 THEN b
    ELSE IF b = 0 THEN a
    ELSE (((a % 2) + (b % 2)) % 2) + 2 * Xor(a \div 2, b \div 2)

\* data[a:b]
Slice(data, a, b) ==
    SubSeq(data, a + 1, IF b < Len(data) THEN b ELSE Len(data))

\* struct.pack("!H", n), struct.pack("!Q", n) for n < 2^31, and their
\* inverses
PackH(n) == <<n \div 256, n % 256>>
PackQ(n) ==
    <<0, 0, 0, 0, (n \div 16777216) % 256, (n \div 65536) % 256,
      (n \div 256) % 256, n % 256>>
UnpackH(b) == b[1] * 256 + b[2]
\* a length of 2^31 or more is longer than any buffer of the model
HugeLen == 2147483000
UnpackQ(b) ==
    IF b[1] = 0 /\ b[2] = 0 /\ b[3] = 0 /\ b[4] = 0 /\ b[5] < 128
    THEN b[5] * 16777216 + b[6] * 65536 + b[7] * 256 + b[8]
    ELSE HugeLen

\* the None of parse_ws_frame
NoFrame == [complete |-> FALSE, opcode |-> 0, payload |-> <<>>, consumed |-> 0]

\* payload[i] = raw_payload[i] ^ mask_key[i % 4]
Unmask(raw, mask_key) ==
    [i \in 1..Len(raw) |-> Xor(raw[i], mask_key[((i - 1) % 4) + 1])]

\* variant: the final length test is missing
parse_ws_frame_NoPayloadCheck(data) ==
    LET dlen == Len(data)
    IN  IF dlen < 2 THEN NoFrame
        ELSE
        LET opcode == data[1] % 16
            masked == data[2] >= 128
            len7 == data[2] % 128
        IN  IF len7 = 126 /\ dlen < 4 THEN NoFrame
            ELSE IF len7 = 127 /\ dlen < 10 THEN NoFrame
            ELSE
            LET payload_len == IF len7 = 126 THEN UnpackH(Slice(data, 2, 4))
                               ELSE IF len7 = 127 THEN UnpackQ(Slice(data, 2, 10))
                               ELSE len7
                offset0 == IF len7 = 126 THEN 4 ELSE IF len7 = 127 THEN 10 ELSE 2
            IN  IF masked /\ dlen < offset0 + 4 THEN NoFrame
                ELSE
                LET mask_key == IF masked THEN Slice(data, offset0, offset0 + 4)
                                ELSE <<>>
                    offset == IF masked THEN offset0 + 4 ELSE offset0
                    raw_payload == Slice(data, offset, offset + payload_len)
                IN  [complete |-> TRUE, opcode |-> opcode,
                     payload |-> IF masked THEN Unmask(raw_payload, mask_key)
                                 ELSE raw_payload,
                     consumed |-> offset + payload_len]

\* parse_ws_frame: (opcode, payload, consumed), or NoFrame for None
parse_ws_frame(data) ==
    LET dlen == Len(data)
    IN  IF dlen < 2 THEN NoFrame
        ELSE
        LET opcode == data[1] % 16
            masked == data[2] >= 128
            len7 == data[2] % 128
        IN  IF len7 = 126 /\ dlen < 4 THEN NoFrame
            ELSE IF len7 = 127 /\ dlen < 10 THEN NoFrame
            ELSE
            LET payload_len == IF len7 = 126 THEN UnpackH(Slice(data, 2, 4))
                               ELSE IF len7 = 127 THEN UnpackQ(Slice(data, 2, 10))
                               ELSE len7
                offset0 == IF len7 = 126 THEN 4 ELSE IF len7 = 127 THEN 10 ELSE 2
            IN  IF masked /\ dlen < offset0 + 4 THEN NoFrame
                ELSE
                LET mask_key == IF masked THEN Slice(data, offset0, offset0 + 4)
                                ELSE <<>>
                    offset == IF masked THEN offset0 + 4 ELSE offset0
                IN  IF dlen < offset + payload_len THEN NoFrame
                    ELSE
                    LET raw_payload == Slice(data, offset, offset + payload_len)
                    IN  [complete |-> TRUE, opcode |-> opcode,
                         payload |-> IF masked THEN Unmask(raw_payload, mask_key)
                                     ELSE raw_payload,
                         consumed |-> offset + payload_len]

\* variant: a payload of 126 bytes still gets the 7-bit length
build_ws_frame_SevenBit126(payload, opcode, fin) ==
    LET first_byte == (IF fin THEN 128 ELSE 0) + (opcode % 16)
        length == Len(payload)
    IN  (IF length < 127 THEN <<first_byte, length>>
         ELSE IF length < 65536 THEN <<first_byte, 126>> \o PackH(length)
         ELSE <<first_byte, 127>> \o PackQ(length))
        \o payload

\* build_ws_frame: an unmasked server frame
build_ws_frame(payload, opcode, fin) ==
    LET first_byte == (IF fin THEN 128 ELSE 0) + (opcode % 16)
        length == Len(payload)
    IN  (IF length < 126 THEN <<first_byte, length>>
         ELSE IF length < 65536 THEN <<first_byte, 126>> \o PackH(length)
         ELSE <<first_byte, 127>> \o PackQ(length))
        \o payload

\* build_ws_close_frame() with its defaults: code 1000, no reason
build_ws_close_frame == build_ws_frame(PackH(1000), WS_CLOSE, TRUE)

\* a masked client frame with FIN set, as the tests' _make_masked_frame
\* builds it
make_masked_frame(opcode, payload, mask_key) ==
    LET length == Len(payload)
        masked == [i \in 1..length |-> Xor(payload[i], mask_key[((i - 1) % 4) + 1])]
    IN  (IF length < 126 THEN <<128 + opcode, 128 + length>>
         ELSE IF length < 65536 THEN <<128 + opcode, 128 + 126>> \o PackH(length)
         ELSE <<128 + opcode, 128 + 127>> \o PackQ(length))
        \o mask_key \o masked

\* payloads: n bytes, none of them equal to its neighbours
Payload(n) == [i \in 1..n |-> ((i * 37) % 256)]
SmallLens == {0, 1, 2, 125, 126}
BigLen == 65536
Opcodes == {0, WS_TEXT, WS_BINARY, WS_CLOSE, WS_PING, WS_PONG, 15}
MaskKeys == {<<55, 56, 57, 48>>, <<255, 0, 128, 1>>}
NoKey == <<>>

\* the frames to build: [opcode, payload, masked, mask_key, fin]
FrameSources ==
    [opcode : Opcodes, payload : {Payload(n) : n \in SmallLens},
     masked : {TRUE}, mask_key : MaskKeys, fin : {TRUE}]
    \cup [opcode : Opcodes, payload : {Payload(n) : n \in SmallLens},
          masked : {FALSE}, mask_key : {NoKey}, fin : BOOLEAN]
    \cup {[opcode |-> WS_BINARY, payload |-> Payload(BigLen), masked |-> TRUE,
           mask_key |-> <<55, 56, 57, 48>>, fin |-> TRUE],
          [opcode |-> WS_TEXT, payload |-> Payload(BigLen), masked |-> FALSE,
           mask_key |-> NoKey, fin |-> TRUE]}

FrStart(src) ==
    [src |-> src, buf |-> <<>>, phase |-> "source", whole |-> TRUE,
     result |-> NoFrame]

\* the server builds the frame
BuildWsFrame ==
    /\ fr.phase = "source" /\ ~fr.src.masked
    /\ fr' = [fr EXCEPT !.phase = "built",
                        !.buf = build_ws_frame(fr.src.payload, fr.src.opcode,
                                               fr.src.fin)]

\* a client builds the frame
MakeMaskedFrame ==
    /\ fr.phase = "source" /\ fr.src.masked
    /\ fr' = [fr EXCEPT !.phase = "built",
                        !.buf = make_masked_frame(fr.src.opcode, fr.src.payload,
                                                  fr.src.mask_key)]

\* lengths at which a frame is cut: every one for a short frame, those
\* around the header fields and the end for a long one
CutPoints(buf) ==
    IF Len(buf) <= 140 THEN 0..(Len(buf) - 1)
    ELSE {0, 1, 2, 3, 4, 9, 10, 11, 13, 14, 15, Len(buf) - 1}

\* only a proper prefix of the frame has arrived
Truncate ==
    /\ fr.phase = "built" /\ fr.whole
    /\ \E n \in CutPoints(fr.buf) :
         fr' = [fr EXCEPT !.buf = SubSeq(fr.buf, 1, n), !.whole = FALSE]

ParseFrame ==
    /\ fr.phase = "built"
    /\ fr' = [fr EXCEPT !.phase = "parsed", !.result = parse_ws_frame(fr.buf)]

FrQuiet ==
    fr = FrStart([opcode |-> 0, payload |-> <<>>, masked |-> FALSE,
                  mask_key |-> NoKey, fin |-> TRUE])

(***************************************************************************)
(* The WebSocket open loop of _handle_notepad_ws, from "buf = b''" on.     *)
(* script is what the peer sends, inflight the bytes of it not yet         *)
(* received; parsed logs every frame the loop took out of buf, handled     *)
(* every payload given to _handle_ws_message, sent every frame written     *)
(* in reply to a frame or on leaving, pings the keep-alive pings written,   *)
(* log the replies and handler calls in the order they were made.          *)
(***************************************************************************)
MaxFrames == 3
MaxPings == 1

\* the frames a peer sends: [opcode, payload]
PeerFrames ==
    {[opcode |-> WS_TEXT, payload |-> <<97>>],
     [opcode |-> WS_BINARY, payload |-> <<1, 2>>],
     [opcode |-> WS_PING, payload |-> <<7>>],
     [opcode |-> WS_PONG, payload |-> <<>>],
     [opcode |-> WS_CLOSE, payload |-> PackH(1000)]}

PeerScripts == UNION {[1..n -> PeerFrames] : n \in 1..MaxFrames}

RECURSIVE Concat(_)
\* b"".join(frames)
Concat(frames) ==
    IF frames = <<>> THEN <<>> ELSE Head(frames) \o Concat(Tail(frames))

\* the bytes of a script, every frame masked
ScriptBytes(script) ==
    Concat([i \in DOMAIN script |->
              make_masked_frame(script[i].opcode, script[i].payload,
                                <<55, 56, 57, 48>>)])

WslStart(script) ==
    [script |-> script, inflight |-> ScriptBytes(script), buf |-> <<>>,
     parsed |-> <<>>, handled |-> <<>>, sent |-> <<>>, log |-> <<>>,
     state |-> "open",
     exit |-> "", pings |-> 0]

\* a frame handed to sendall; ok is FALSE where the code saw the write
\* fail.  The writes of close frames are best effort: their failure is
\* swallowed and changes nothing, so it is not told apart.
Written(frame, ok) == [frame |-> frame, ok |-> ok]

\* the finally block: a close frame, best effort, and the function is left
Finally(st, exit) ==
    { [st EXCEPT !.state = "returned", !.exit = exit,
                 !.sent = Append(@, Written(build_ws_close_frame, TRUE))] }

\* variant: one byte more than the frame is dropped
Consume_OneTooMany(buf, consumed) == Slice(buf, consumed + 1, Len(buf))

\* buf = buf[consumed:]
Consume(buf, consumed) == Slice(buf, consumed, Len(buf))

\* variant: the pong carries no payload
Pong_Empty(payload) == build_ws_frame(<<>>, WS_PONG, TRUE)

\* build_ws_frame(payload, opcode=WS_PONG)
Pong(payload) == build_ws_frame(payload, WS_PONG, TRUE)

\* the loop did something for a frame: wrote a reply or called the handler
Did(st, what, payload) == [st EXCEPT !.log = Append(@, [what |-> what, payload |-> payload])]

\* the frame _ws_send_json writes; "{}" stands for the JSON document
JsonReply == build_ws_frame(<<123, 125>>, WS_TEXT, TRUE)

\* _handle_ws_message: the reply is written by _ws_send_json, which
\* swallows a failed write, or the handler raises before it replies
handle_ws_message(st, payload) ==
    LET st1 == [Did(st, "message", payload) EXCEPT !.handled = Append(@, payload)]
    IN  { [st1 EXCEPT !.sent = Append(@, Written(JsonReply, ok))] :
            ok \in BOOLEAN }
        \cup Finally(st1, "exception")

\* variant: after the reply to a close frame the loop goes on
OnFrame_CloseContinues(st, opcode, payload) ==
    IF opcode = WS_CLOSE
    THEN { [Did(st, "close", <<>>) EXCEPT !.sent = Append(@, Written(build_ws_close_frame, TRUE))] }
    ELSE IF opcode = WS_PING
    THEN { [Did(st, "pong", payload) EXCEPT !.sent = Append(@, Written(Pong(payload), TRUE))] }
         \cup Finally([Did(st, "pong", payload) EXCEPT !.sent = Append(@, Written(Pong(payload), FALSE))],
                      "pong_failed")
    ELSE IF opcode = WS_PONG
    THEN {st}
    ELSE IF opcode \in {WS_TEXT, WS_BINARY}
    THEN handle_ws_message(st, payload)
    ELSE {st}

\* the body of the inner loop for one frame taken out of buf; the states
\* it can leave: "open" to go on, "returned" when the function was left.
\* _handle_ws_message returns or raises.
OnFrame(st, opcode, payload) ==
    IF opcode = WS_CLOSE
    THEN Finally([Did(st, "close", <<>>) EXCEPT !.sent = Append(@, Written(build_ws_close_frame, TRUE))],
                 "close_frame")
    ELSE IF opcode = WS_PING
    THEN { [Did(st, "pong", payload) EXCEPT !.sent = Append(@, Written(Pong(payload), TRUE))] }
         \cup Finally([Did(st, "pong", payload) EXCEPT !.sent = Append(@, Written(Pong(payload), FALSE))],
                      "pong_failed")
    ELSE IF opcode = WS_PONG
    THEN {st}
    ELSE IF opcode \in {WS_TEXT, WS_BINARY}
    THEN handle_ws_message(st, payload)
    ELSE {st}

RECURSIVE ParseAll(_)
\* parse, re-slice by the consumed count, and parse again until nothing
\* complete is left: the frames found, as [opcode, payload]
ParseAll(buf) ==
    LET frame == parse_ws_frame(buf)
    IN  IF ~frame.complete THEN <<>>
        ELSE <<[opcode |-> frame.opcode, payload |-> frame.payload]>>
               \o ParseAll(Consume(buf, frame.consumed))

RECURSIVE ProcessFrames(_)
\* "Process all complete frames in buffer"
ProcessFrames(st) ==
    LET frame == parse_ws_frame(st.buf)
    IN  IF ~frame.complete THEN {st}
        ELSE
        LET st1 == [st EXCEPT
                      !.buf = Consume(@, frame.consumed),
                      !.parsed = Append(@, [opcode |-> frame.opcode,
                                            payload |-> frame.payload])]
        IN  UNION { IF r.state = "open" THEN ProcessFrames(r) ELSE {r} :
                    r \in OnFrame(st1, frame.opcode, frame.payload) }

\* what recv(65536) may return of n bytes in flight: a few bytes, so that
\* a read ends anywhere inside a frame or just past its end, or all of them
RecvSizes(n) == {k \in 1..n : k <= 3 \/ k = n}

\* one pass of the outer loop: recv returns some of the bytes in flight,
\* then every complete frame in buf is processed
WsRecv ==
    /\ wsl.state = "open" /\ wsl.inflight # <<>>
    /\ \E k \in RecvSizes(Len(wsl.inflight)) :
         \E st \in ProcessFrames(
                     [wsl EXCEPT
                        !.buf = @ \o SubSeq(wsl.inflight, 1, k),
                        !.inflight = SubSeq(@, k + 1, Len(@))]) :
           wsl' = st

\* recv returns b"": the peer has shut the connection down
WsRecvEof ==
    /\ wsl.state = "open" /\ wsl.inflight = <<>>
    /\ \E st \in Finally(wsl, "eof") : wsl' = st

\* recv raises (connection reset)
WsRecvError ==
    /\ wsl.state = "open"
    /\ \E st \in Finally(wsl, "exception") : wsl' = st

\* variant: two ping frames for one idle window
WsTimeout_TwoPings ==
    /\ wsl.state = "open" /\ wsl.pings < MaxPings
    /\ \/ wsl' = [wsl EXCEPT !.pings = @ + 2]
       \/ \E st \in Finally(wsl, "ping_failed") : wsl' = st

\* recv times out: a ping frame is written (counted in pings), and the
\* loop goes on unless the write fails
WsTimeout ==
    /\ wsl.state = "open" /\ wsl.pings < MaxPings
    /\ \/ wsl' = [wsl EXCEPT !.pings = @ + 1]
       \/ \E st \in Finally(wsl, "ping_failed") : wsl' = st

\* stop() was called: "while self.running" fails at the next pass
WsStopped ==
    /\ wsl.state = "open"
    /\ \E st \in Finally(wsl, "not_running") : wsl' = st

WslQuiet == wsl = WslStart(<<>>)
WsQuiet == UpQuiet /\ FrQuiet /\ WslQuiet

(***************************************************************************)
(* AuthRateLimiter (security/auth.py) with the monotonic clock it reads.   *)
(* _failures maps an IP to the times of its failures, oldest first.        *)
(***************************************************************************)
cooldown == 2
MaxTime == 2
MaxFailures == 6

\* dict.pop(key, None) / del dict[key]
DictPop(d, key) == [k \in DOMAIN d \ {key} |-> d[k]]

\* [t for t in self._failures[ip] if now - t < self.cooldown]
Unexpired(times, now) == SelectSeq(times, LAMBDA t : now - t < cooldown)

\* is_blocked(ip) at time now: the dict it leaves and its answer
limiter_is_blocked(f, ip, now) ==
    IF ip \notin DOMAIN f THEN [failures |-> f, result |-> FALSE]
    ELSE LET kept == Unexpired(f[ip], now)
         IN  IF kept = <<>>
             THEN [failures |-> DictPop(f, ip), result |-> FALSE]
             ELSE [failures |-> DictSet(f, ip, kept),
                   result |-> Len(kept) >= max_attempts]

\* record_failure(ip) at time now
limiter_record_failure(f, ip, now) ==
    LET g == IF ip \notin DOMAIN f THEN DictSet(f, ip, <<>>) ELSE f
    IN  DictSet(g, ip, Append(g[ip], now))

\* variant: every IP is forgotten
limiter_reset_AllIps(f, ip) == EmptyDict

\* reset(ip)
limiter_reset(f, ip) == DictPop(f, ip)

LimStart ==
    [now |-> 0, failures |-> EmptyDict,
     last |-> [op |-> "none", ip |-> "", result |-> FALSE]]

\* how many failures the limiter holds, over all IPs
HeldFailures(f) ==
    LET n[S \in SUBSET DOMAIN f] ==
          IF S = {} THEN 0
          ELSE LET ip == CHOOSE x \in S : TRUE
               IN  Len(f[ip]) + n[S \ {ip}]
    IN  n[DOMAIN f]

LimIsBlocked ==
    \E ip \in IPs :
       LET r == limiter_is_blocked(lim.failures, ip, lim.now)
       IN  lim' = [lim EXCEPT !.failures = r.failures,
                              !.last = [op |-> "is_blocked", ip |-> ip,
                                        result |-> r.result]]

LimRecordFailure ==
    /\ HeldFailures(lim.failures) < MaxFailures
    /\ \E ip \in IPs :
         lim' = [lim EXCEPT
                   !.failures = limiter_record_failure(@, ip, lim.now),
                   !.last = [op |-> "record_failure", ip |-> ip,
                             result |-> FALSE]]

LimReset ==
    \E ip \in IPs :
       lim' = [lim EXCEPT !.failures = limiter_reset(@, ip),
                          !.last = [op |-> "reset", ip |-> ip,
                                    result |-> FALSE]]

\* time.monotonic() moves on
LimTick ==
    /\ lim.now < MaxTime
    /\ lim' = [lim EXCEPT !.now = @ + 1]

LimQuiet == lim = LimStart
(***************************************************************************)
(* Uploads (handlers/files.py handle_none, http/utils.py).  The uploads    *)
(* directory maps a file name to its content; each uploader is a request   *)
(* on its own connection, handled by its own pool thread with no lock.     *)
(***************************************************************************)
Uploaders == {"u1", "u2"}
UploadNames == {<<"a", ".", "t", "x", "t">>, <<"b">>}
\* secrets.token_hex(4): the draws are taken from this sample
TokenDraws == {<<"0">>, <<"1">>}

\* the index of the last "." of name, 0 if there is none
LastDot(name) ==
    LET dots == {i \in DOMAIN name : name[i] = "."}
    IN  IF dots = {} THEN 0 ELSE CHOOSE i \in dots : \A j \in dots : j <= i

\* make_unique_filename: exists() on the directory as it is now
make_unique_filename(files, name, unique_suffix) ==
    IF name \notin DOMAIN files THEN name
    ELSE LET d == LastDot(name)
         IN  IF d # 0
             THEN SubSeq(name, 1, d - 1) \o <<"_">> \o unique_suffix
                    \o <<".">> \o SubSeq(name, d + 1, Len(name))
             ELSE name \o <<"_">> \o unique_suffix

NoUpload == [pc |-> "idle", name |-> <<>>, path |-> <<>>, body |-> ""]

StoreStart(files) == [files |-> files, up |-> [u \in Uploaders |-> NoUpload]]

\* handle_none up to the choice of file_path, for a request with a body
UploadBegin(u) ==
    /\ store.up[u].pc = "idle"
    /\ \E name \in UploadNames, token \in TokenDraws :
         store' = [store EXCEPT
                     !.up[u] = [pc |-> "named", name |-> name,
                                path |-> make_unique_filename(store.files, name, token),
                                body |-> u]]

\* file_path.open("wb") creates the file or truncates the one that is there
UploadOpen(u) ==
    /\ store.up[u].pc = "named"
    /\ store' = [store EXCEPT !.up[u].pc = "open",
                              !.files = DictSet(@, store.up[u].path, "")]

\* f.write(request.body) and the 201, or an exception, unlink and the 500
UploadWrite(u) ==
    /\ store.up[u].pc = "open"
    /\ \/ store' = [store EXCEPT !.up[u].pc = "stored",
                                 !.files = DictSet(@, store.up[u].path,
                                                   store.up[u].body)]
       \/ store' = [store EXCEPT !.up[u].pc = "failed",
                                 !.files = DictPop(@, store.up[u].path)]

StoreQuiet == store = StoreStart(EmptyDict)
(***************************************************************************)
(* Request parser (http/request.py).  A buffer is a sequence of one-byte   *)
(* strings; xFF stands for a byte that is not valid UTF-8.                 *)
(***************************************************************************)
xFF == "xFF"
EOL == <<"\r", "\n">>

Range(s) == {s[i] : i \in DOMAIN s}

\* str.split(sep, 1)
SplitOnce(data, sep) ==
    LET pos == Find(data, sep)
    IN  IF pos = -1 THEN <<data>>
        ELSE <<SubSeq(data, 1, pos),
               SubSeq(data, pos + Len(sep) + 1, Len(data))>>

\* the object as __init__ leaves it before _parse runs
EmptyRequest ==
    [method |-> <<>>, path |-> <<>>, query_params |-> EmptyDict,
     http_version |-> <<>>, headers |-> EmptyDict, body |-> <<>>]

\* urllib.parse.unquote, for the escape the sample URLs carry
RECURSIVE unquote(_)
unquote(t) ==
    IF t = <<>> THEN t
    ELSE IF Len(t) >= 3 /\ SubSeq(t, 1, 3) = <<"%", "2", "0">>
         THEN <<" ">> \o unquote(SubSeq(t, 4, Len(t)))
         ELSE <<t[1]>> \o unquote(Tail(t))

\* urlparse(raw_url): ValueError for a network location with an unmatched
\* bracket, otherwise the path and the query of a URL without scheme
urlparse(raw_url) ==
    LET netloc == IF IsPrefix(<<"/", "/">>, raw_url)
                  THEN SplitOnce(SubSeq(raw_url, 3, Len(raw_url)), <<"/">>)[1]
                  ELSE <<>>
        rest == IF IsPrefix(<<"/", "/">>, raw_url)
                THEN SubSeq(raw_url, 3 + Len(netloc), Len(raw_url))
                ELSE raw_url
        cut == SplitOnce(rest, <<"?">>)
    IN  [raises |-> ("[" \in Range(netloc)) # ("]" \in Range(netloc)),
         path |-> cut[1],
         query |-> IF Len(cut) = 2 THEN cut[2] ELSE <<>>]

RECURSIVE QueryDict(_)
\* {k: v[-1] for k, v in parse_qs(query).items()}: fields without "=" or
\* with an empty value are dropped, a later field replaces an earlier one
QueryDict(fields) ==
    IF fields = <<>> THEN EmptyDict
    ELSE LET before == QueryDict(SubSeq(fields, 1, Len(fields) - 1))
             kv == SplitOnce(fields[Len(fields)], <<"=">>)
         IN  IF Len(kv) = 2 /\ kv[2] # <<>>
             THEN DictSet(before, kv[1], kv[2]) ELSE before

RECURSIVE HeaderDict(_)
\* the loop over lines[1:]: lines without ":" are skipped, the key is
\* lower-cased, the value stripped, a later line replaces an earlier one
HeaderDict(lines) ==
    IF lines = <<>> THEN EmptyDict
    ELSE LET before == HeaderDict(SubSeq(lines, 1, Len(lines) - 1))
             line == lines[Len(lines)]
             kv == SplitOnce(line, <<":">>)
         IN  IF ":" \in Range(line)
             THEN DictSet(before, Lower(kv[1]), Strip(kv[2])) ELSE before

\* header_part of raw_data: what precedes the first blank line
HeaderPart(raw_data) == SplitOnce(raw_data, EOL \o EOL)[1]

\* the body of the try statement of _parse: the object with the fields
\* assigned so far, and whether a statement raised
ParseTry(raw_data) ==
    LET halves == SplitOnce(raw_data, EOL \o EOL)
        r0 == [EmptyRequest EXCEPT
                 !.body = IF Len(halves) = 2 THEN halves[2] ELSE <<>>]
        lines == Split(halves[1], EOL)
        parts == Split(lines[1], <<" ">>)
        parsed == urlparse(parts[2])
        r1 == IF Len(parts) >= 3 THEN [r0 EXCEPT !.method = parts[1]] ELSE r0
        r2 == [r1 EXCEPT !.path = unquote(parsed.path),
                         !.query_params = QueryDict(Split(parsed.query, <<"&">>)),
                         !.http_version = parts[3]]
    IN  IF xFF \in Range(halves[1]) THEN [req |-> r0, raised |-> TRUE]
        ELSE IF Len(parts) < 3
             THEN [req |-> [r0 EXCEPT !.headers = HeaderDict(Tail(lines))],
                   raised |-> FALSE]
        ELSE IF parsed.raises THEN [req |-> r1, raised |-> TRUE]
        ELSE [req |-> [r2 EXCEPT !.headers = HeaderDict(Tail(lines))],
              raised |-> FALSE]

\* variant: no except clause, an exception leaves the constructor
parse_NoCatch(raw_data) == ParseTry(raw_data)

\* _parse: the except clause logs and swallows every exception
parse(raw_data) == [ParseTry(raw_data) EXCEPT !.raised = FALSE]

\* variant: the name is looked up as given
get_header_AsGiven(r, name, default) == DictGet(r.headers, name, default)

get_header(r, name, default) == DictGet(r.headers, Lower(name), default)

MaxHeaderLines == 2

RequestLines ==
    {<<"G", "E", "T", " ", "/", " ", "H", "T", "T", "P", "/", "1", ".",
       "1">>,
     <<"G", "E", "T", " ", "/", "a", "%", "2", "0", "b", "?", "k", "=",
       "v", "&", "k", "=", "w", " ", "H", "T", "T", "P", "/", "1", ".",
       "1">>,
     <<"G", "E", "T", " ", "/">>,
     <<"G", xFF, "T", " ", "/", " ", "H", "T", "T", "P", "/", "1", ".",
       "1">>,
     <<"G", "E", "T", " ", "/", "/", "[", " ", "H", "T", "T", "P", "/",
       "1", ".", "1">>,
          <<>>}
HeaderLines ==
    {<<"X", "-", "F", "o", "o", ":", " ", "b", "a", "r">>,
     <<"x", "-", "f", "o", "o", ":", "b", "a", "z", " ">>,
     <<"X", "-", "F", "O", "O", ":", " ">>,
     <<"n", "o", "c", "o", "l", "o", "n">>,
     <<"H", "o", "s", "t", ":", " ", "a", ":", "b">>,
     <<"X", "-", xFF, ":", " ", "v">>}
HeaderLists ==
    UNION {[1..n -> HeaderLines] : n \in 0..MaxHeaderLines}
RequestBodies == {<<>>, <<"b">>, <<xFF>>}
LookupNames ==
    {<<"X", "-", "F", "o", "o">>,
     <<"x", "-", "f", "o", "o">>,
     <<"X", "-", "F", "O", "O">>,
     <<"H", "o", "s", "t">>,
     <<"n", "o", "c", "o", "l", "o", "n">>,
     <<"X", "-", "B", "a", "r">>}

\* the request line and the header lines joined by CRLF
HeadBlock(request_line, header_lines) ==
    Concat(<<request_line>>
             \o [i \in DOMAIN header_lines |-> EOL \o header_lines[i]])

\* buffers with and without the blank line that ends the header block
RawBuffers ==
    {HeadBlock(l, hs) : l \in RequestLines, hs \in HeaderLists}
      \cup {HeadBlock(l, hs) \o EOL \o EOL \o b :
              l \in RequestLines, hs \in HeaderLists, b \in RequestBodies}

RqStart(raw_data) ==
    [phase |-> "raw", raw |-> raw_data, req |-> EmptyRequest,
     asked |-> <<>>, got |-> <<>>]

\* HTTPRequest(raw_data)
RqParse ==
    /\ rq.phase = "raw"
    /\ LET out == parse(rq.raw)
       IN  rq' = [rq EXCEPT !.phase = IF out.raised THEN "raised" ELSE "parsed",
                            !.req = out.req]

\* request.get_header(name) on the parsed request
RqGetHeader ==
    /\ rq.phase = "parsed"
    /\ \E name \in LookupNames :
         rq' = [rq EXCEPT !.phase = "answered", !.asked = name,
                          !.got = get_header(rq.req, name, <<>>)]

RqQuiet == rq = RqStart(<<>>)
SvcQuiet == LimQuiet /\ StoreQuiet /\ RqQuiet

(***************************************************************************)
(* One request from the handler's answer to the serialized response        *)
(* (server.py _process_request, handlers/files.py handle_options).         *)
(***************************************************************************)
OptionsDecoy == <<"GET", "POST", "PUT", "OPTIONS">>
OptionsFull ==
    <<"GET", "POST", "PUT", "FETCH", "INFO", "PING", "NONE", "OPTIONS">>

\* handle_options.  "requested_method not in allowed" is a substring test
\* on the joined list; the methods asked for here are whole method names,
\* none of them part of another.
handle_options(opsec_mode, request) ==
    LET requested_method ==
            DictGet(request.headers, "access-control-request-method", "")
        base == IF opsec_mode THEN OptionsDecoy ELSE OptionsFull
        allowed == IF requested_method \in Range(base) THEN base
                   ELSE Append(base, requested_method)
    IN  IF requested_method # ""
        THEN set_header(HTTPResponse(204), "Access-Control-Allow-Methods",
                        Join(allowed, ", "))
        ELSE HTTPResponse(204)

\* variant: the request id is set in every mode
StampRequestId_Always(r, opsec_mode) == set_header(r, "X-Request-Id", "id")

\* "if not self.opsec_mode: response.set_header("X-Request-Id", request_id)"
StampRequestId(r, opsec_mode) ==
    IF opsec_mode THEN r ELSE set_header(r, "X-Request-Id", "id")

\* what the handler lookup and the handler give the driver
HandlerResponses(opsec_mode, request) ==
    {handle_options(opsec_mode, request),
     set_body(HTTPResponse(200), <<"b">>, "text/html"),
     set_file(HTTPResponse(200), "fBig", "application/octet-stream"),
     MissResponse(opsec_mode)}

\* the responses the driver builds itself before or instead of a handler
DriverResponses ==
    {set_body(set_header(HTTPResponse(401), "WWW-Authenticate", "Basic"),
              <<"b">>, "application/json")}
      \cup {JsonError(status) : status \in {429, 413, 500}}

RequestedMethods == {"GET", "PATCH", "NOTE", "DELETE"}

\* requests with and without Connection and Access-Control-Request-Method
PreflightRequests ==
    {[http_version |-> v, headers |-> h] :
       v \in {"HTTP/1.1", "HTTP/1.0"},
       h \in {EmptyDict}
               \cup {[k \in {"connection"} |-> c] : c \in {sClose, sKeepAlive}}
               \cup {[k \in {"access-control-request-method"} |-> m] :
                       m \in RequestedMethods}
               \cup {[k \in {"connection", "access-control-request-method"}
                        |-> IF k = "connection" THEN sKeepAlive ELSE m] :
                       m \in RequestedMethods}}

\* the driver has its response: the handler's, stamped with the request id
\* outside decoy mode, or one of its own
DriverRespond ==
    /\ kaOut.done /\ respOps = 0
    /\ \/ \E r \in HandlerResponses(kaIn.opsec_mode, kaIn.request) :
            resp' = StampRequestId(r, kaIn.opsec_mode)
       \/ \E r \in DriverResponses : resp' = r
    /\ respOps' = 1
    /\ UNCHANGED <<kaIn, kaOut, wire>>

\* build_headers(**_bld_close) for a streamed response, build(**_bld)
\* for any other
DriverSerialize ==
    /\ respOps = 1
    /\ LET keep_alive == kaOut.value /\ resp.stream_path = None
           r == build(resp, kaIn.opsec_mode, "*", keep_alive,
                      KEEP_ALIVE_TIMEOUT, KEEP_ALIVE_MAX)
       IN  /\ resp' = r
           /\ wire' = [built |-> TRUE,
                       status_code |-> r.status_code,
                       headers |-> r.headers,
                       body |-> r.body,
                       streamed |-> r.stream_path # None,
                       keep_alive |-> keep_alive,
                       hadKeepAliveHeader |-> "Keep-Alive" \in DOMAIN resp.headers]
    /\ respOps' = 2
    /\ UNCHANGED <<kaIn, kaOut>>

(***************************************************************************)
(* Specifications.                                                         *)
(***************************************************************************)
KaQuiet == kaIn = KaIdle /\ kaOut = KaPending
RespQuiet == resp = HTTPResponse(200) /\ respOps = 0 /\ wire = NoWire
RdQuiet ==
    /\ rdScript = NoData /\ peer = NoData
    /\ rd = [ReaderStart(NoIdle) EXCEPT !.state = "idle"]
SrvQuiet ==
    /\ cfg = [opsec_mode |-> FALSE, tls_enabled |-> FALSE, auth |-> FALSE,
              max_workers |-> 1]
    /\ running = FALSE /\ listener = "stopped" /\ queue = <<>>
    /\ wk = [w \in Workers |-> IdleWorker]
    /\ failures = [ip \in IPs |-> 0]
    /\ orphans = 0 /\ connsLeft = 0 /\ reqsLeft = 0

InitKeepAlive ==
    /\ kaIn \in [opsec_mode : BOOLEAN, request : KaRequests]
    /\ kaOut = KaPending
    /\ RespQuiet /\ RdQuiet /\ SrvQuiet /\ DsQuiet /\ WsQuiet /\ SvcQuiet

NextKeepAlive == DecideKeepAlive /\ UNCHANGED <<respVars, rdVars, srvVars, dispVars, wsVars, svcVars>>

SpecKeepAlive == InitKeepAlive /\ [][NextKeepAlive]_vars

InitResponse ==
    /\ resp \in {HTTPResponse(s) : s \in {200, 404}}
    /\ respOps = 0
    /\ wire = NoWire
    /\ KaQuiet /\ RdQuiet /\ SrvQuiet /\ DsQuiet /\ WsQuiet /\ SvcQuiet

NextResponse ==
    \/ RespSetHeader /\ UNCHANGED <<kaVars, rdVars, srvVars, dispVars, wsVars, svcVars>>
    \/ RespSetBody /\ UNCHANGED <<kaVars, rdVars, srvVars, dispVars, wsVars, svcVars>>
    \/ RespSetFile /\ UNCHANGED <<kaVars, rdVars, srvVars, dispVars, wsVars, svcVars>>
    \/ RespBuild /\ UNCHANGED <<kaVars, rdVars, srvVars, dispVars, wsVars, svcVars>>

SpecResponse == InitResponse /\ [][NextResponse]_vars

\* One call of _receive_request, on a fresh connection (idle_timeout None)
\* or on a reused one (idle_timeout KEEP_ALIVE_TIMEOUT).
InitReader ==
    /\ rdScript \in Scripts
    /\ peer = rdScript
    /\ rd \in {ReaderStart(t) : t \in {NoIdle, KEEP_ALIVE_TIMEOUT}}
    /\ KaQuiet /\ RespQuiet /\ SrvQuiet /\ DsQuiet /\ WsQuiet /\ SvcQuiet

NextReader ==
    \/ RecvChunk /\ UNCHANGED <<kaVars, respVars, srvVars, dispVars, wsVars, svcVars>>
    \/ RecvEof /\ UNCHANGED <<kaVars, respVars, srvVars, dispVars, wsVars, svcVars>>
    \/ RecvTimeout /\ UNCHANGED <<kaVars, respVars, srvVars, dispVars, wsVars, svcVars>>
    \/ RecvError /\ UNCHANGED <<kaVars, respVars, srvVars, dispVars, wsVars, svcVars>>
    \/ HeaderBudgetExceeded /\ UNCHANGED <<kaVars, respVars, srvVars, dispVars, wsVars, svcVars>>
    \/ BodyBudgetExceeded /\ UNCHANGED <<kaVars, respVars, srvVars, dispVars, wsVars, svcVars>>

SpecReader == InitReader /\ [][NextReader]_vars

\* The server under load from a few peers.
Init ==
    /\ InitServer
    /\ cfg \in [opsec_mode : BOOLEAN, tls_enabled : BOOLEAN, auth : BOOLEAN,
                 max_workers : {1}]
    /\ connsLeft = -1 /\ reqsLeft = MaxReqs
    /\ KaQuiet /\ RespQuiet /\ RdQuiet /\ DsQuiet /\ WsQuiet /\ SvcQuiet

Next ==
    \/ EnterAccept /\ UNCHANGED <<kaVars, respVars, rdVars, dispVars, wsVars, svcVars>>
    \/ Accept /\ UNCHANGED <<kaVars, respVars, rdVars, dispVars, wsVars, svcVars>>
    \/ AcceptTimeout /\ UNCHANGED <<kaVars, respVars, rdVars, dispVars, wsVars, svcVars>>
    \/ Stop /\ UNCHANGED <<kaVars, respVars, rdVars, dispVars, wsVars, svcVars>>
    \/ ShutdownExecutor /\ UNCHANGED <<kaVars, respVars, rdVars, dispVars, wsVars, svcVars>>
    \/ ServerStopped /\ UNCHANGED <<kaVars, respVars, rdVars, dispVars, wsVars, svcVars>>
    \/ Expire /\ UNCHANGED <<kaVars, respVars, rdVars, dispVars, wsVars, svcVars>>
    \/ \E w \in Workers : StartClient(w) /\ UNCHANGED <<kaVars, respVars, rdVars, dispVars, wsVars, svcVars>>
    \/ \E w \in Workers : RecvNothing(w) /\ UNCHANGED <<kaVars, respVars, rdVars, dispVars, wsVars, svcVars>>
    \/ \E w \in Workers : RecvRequest(w) /\ UNCHANGED <<kaVars, respVars, rdVars, dispVars, wsVars, svcVars>>
    \/ \E w \in Workers : Authenticate(w) /\ UNCHANGED <<kaVars, respVars, rdVars, dispVars, wsVars, svcVars>>
    \/ \E w \in Workers : Process(w) /\ UNCHANGED <<kaVars, respVars, rdVars, dispVars, wsVars, svcVars>>
    \/ \E w \in Workers : WsLoopEnds(w) /\ UNCHANGED <<kaVars, respVars, rdVars, dispVars, wsVars, svcVars>>

Spec == Init /\ [][Next]_vars

\* One peer keeps a single connection busy past KEEP_ALIVE_MAX requests.
InitLong ==
    /\ InitServer
    /\ cfg = [opsec_mode |-> FALSE, tls_enabled |-> TRUE, auth |-> TRUE,
              max_workers |-> 1]
    /\ connsLeft = 1 /\ reqsLeft = KEEP_ALIVE_MAX + 1
    /\ KaQuiet /\ RespQuiet /\ RdQuiet /\ DsQuiet /\ WsQuiet /\ SvcQuiet

SpecLong == InitLong /\ [][Next]_vars

\* Peers that keep failing authentication, one connection after another.
InitAuth ==
    /\ InitServer
    /\ cfg = [opsec_mode |-> FALSE, tls_enabled |-> FALSE, auth |-> TRUE,
              max_workers |-> 1]
    /\ connsLeft = -1 /\ reqsLeft = AuthReqs
    /\ KaQuiet /\ RespQuiet /\ RdQuiet /\ DsQuiet /\ WsQuiet /\ SvcQuiet

SpecAuth == InitAuth /\ [][Next]_vars

\* Two pool threads serve connections of one address that has already
\* failed max_attempts - 1 times within the window (four earlier requests
\* with wrong credentials, each answered 401).
InitRace ==
    /\ running = TRUE /\ listener = "listening" /\ queue = <<>>
    /\ wk = [w \in Workers |-> IdleWorker]
    /\ failures = [ip \in IPs |-> IF ip = "ip1" THEN max_attempts - 1 ELSE 0]
    /\ orphans = 0
    /\ cfg = [opsec_mode |-> FALSE, tls_enabled |-> FALSE, auth |-> TRUE,
              max_workers |-> 2]
    /\ connsLeft = 2 /\ reqsLeft = MaxReqs
    /\ KaQuiet /\ RespQuiet /\ RdQuiet /\ DsQuiet /\ WsQuiet /\ SvcQuiet

\* the server keeps running and no failure leaves the window meanwhile
NextRace ==
    \/ EnterAccept /\ UNCHANGED <<kaVars, respVars, rdVars, dispVars, wsVars, svcVars>>
    \/ Accept /\ UNCHANGED <<kaVars, respVars, rdVars, dispVars, wsVars, svcVars>>
    \/ \E w \in Workers : StartClient(w) /\ UNCHANGED <<kaVars, respVars, rdVars, dispVars, wsVars, svcVars>>
    \/ \E w \in Workers : RecvNothing(w) /\ UNCHANGED <<kaVars, respVars, rdVars, dispVars, wsVars, svcVars>>
    \/ \E w \in Workers : RecvRequest(w) /\ UNCHANGED <<kaVars, respVars, rdVars, dispVars, wsVars, svcVars>>
    \/ \E w \in Workers : Authenticate(w) /\ UNCHANGED <<kaVars, respVars, rdVars, dispVars, wsVars, svcVars>>
    \/ \E w \in Workers : Process(w) /\ UNCHANGED <<kaVars, respVars, rdVars, dispVars, wsVars, svcVars>>
    \/ \E w \in Workers : WsLoopEnds(w) /\ UNCHANGED <<kaVars, respVars, rdVars, dispVars, wsVars, svcVars>>

SpecRace == InitRace /\ [][NextRace]_vars

\* One server start and one handler lookup.
InitDispatch ==
    /\ ds \in {DsStart(m) : m \in BOOLEAN}
    /\ KaQuiet /\ RespQuiet /\ RdQuiet /\ SrvQuiet /\ WsQuiet /\ SvcQuiet

NextDispatch ==
    \/ GenerateOpsecMethods /\ UNCHANGED <<kaVars, respVars, rdVars, srvVars, wsVars, svcVars>>
    \/ Dispatch /\ UNCHANGED <<kaVars, respVars, rdVars, srvVars, wsVars, svcVars>>

SpecDispatch == InitDispatch /\ [][NextDispatch]_vars

\* One request put to the upgrade test.
InitUpgrade ==
    /\ up \in {UpStart(UpHeaders(u, c, k), r) :
                 u \in UpgradeValues, c \in UpConnValues, k \in KeyValues,
                 r \in BOOLEAN}
    /\ KaQuiet /\ RespQuiet /\ RdQuiet /\ SrvQuiet /\ DsQuiet
    /\ FrQuiet /\ WslQuiet /\ SvcQuiet

NextUpgrade ==
    DetectUpgrade /\ UNCHANGED <<kaVars, respVars, rdVars, srvVars, dispVars, fr, wsl, svcVars>>

SpecUpgrade == InitUpgrade /\ [][NextUpgrade]_vars

\* One frame built, possibly cut short, and parsed.
InitFrame ==
    /\ fr \in {FrStart(src) : src \in FrameSources}
    /\ KaQuiet /\ RespQuiet /\ RdQuiet /\ SrvQuiet /\ DsQuiet
    /\ UpQuiet /\ WslQuiet /\ SvcQuiet

NextFrame ==
    \/ BuildWsFrame /\ UNCHANGED <<kaVars, respVars, rdVars, srvVars, dispVars, up, wsl, svcVars>>
    \/ MakeMaskedFrame /\ UNCHANGED <<kaVars, respVars, rdVars, srvVars, dispVars, up, wsl, svcVars>>
    \/ Truncate /\ UNCHANGED <<kaVars, respVars, rdVars, srvVars, dispVars, up, wsl, svcVars>>
    \/ ParseFrame /\ UNCHANGED <<kaVars, respVars, rdVars, srvVars, dispVars, up, wsl, svcVars>>

SpecFrame == InitFrame /\ [][NextFrame]_vars

\* One WebSocket connection from the handshake to the end of the loop.
InitWsLoop ==
    /\ wsl \in {WslStart(script) : script \in PeerScripts}
    /\ KaQuiet /\ RespQuiet /\ RdQuiet /\ SrvQuiet /\ DsQuiet
    /\ UpQuiet /\ FrQuiet /\ SvcQuiet

NextWsLoop ==
    \/ WsRecv /\ UNCHANGED <<kaVars, respVars, rdVars, srvVars, dispVars, up, fr, svcVars>>
    \/ WsRecvEof /\ UNCHANGED <<kaVars, respVars, rdVars, srvVars, dispVars, up, fr, svcVars>>
    \/ WsRecvError /\ UNCHANGED <<kaVars, respVars, rdVars, srvVars, dispVars, up, fr, svcVars>>
    \/ WsTimeout /\ UNCHANGED <<kaVars, respVars, rdVars, srvVars, dispVars, up, fr, svcVars>>
    \/ WsStopped /\ UNCHANGED <<kaVars, respVars, rdVars, srvVars, dispVars, up, fr, svcVars>>

SpecWsLoop == InitWsLoop /\ [][NextWsLoop]_vars

\* Calls on one AuthRateLimiter while time passes.
InitLimiter ==
    /\ lim = LimStart
    /\ KaQuiet /\ RespQuiet /\ RdQuiet /\ SrvQuiet /\ DsQuiet /\ WsQuiet
    /\ StoreQuiet /\ RqQuiet

NextLimiter ==
    \/ LimIsBlocked /\ UNCHANGED <<kaVars, respVars, rdVars, srvVars, dispVars, wsVars, store, rq>>
    \/ LimRecordFailure /\ UNCHANGED <<kaVars, respVars, rdVars, srvVars, dispVars, wsVars, store, rq>>
    \/ LimReset /\ UNCHANGED <<kaVars, respVars, rdVars, srvVars, dispVars, wsVars, store, rq>>
    \/ LimTick /\ UNCHANGED <<kaVars, respVars, rdVars, srvVars, dispVars, wsVars, store, rq>>

SpecLimiter == InitLimiter /\ [][NextLimiter]_vars

\* Two uploads on different connections into one uploads directory.
InitUpload ==
    /\ store \in {StoreStart(EmptyDict),
                  StoreStart([n \in {<<"a", ".", "t", "x", "t">>} |-> "old"])}
    /\ KaQuiet /\ RespQuiet /\ RdQuiet /\ SrvQuiet /\ DsQuiet /\ WsQuiet
    /\ LimQuiet /\ RqQuiet

NextUpload ==
    \/ \E u \in Uploaders : UploadBegin(u) /\ UNCHANGED <<kaVars, respVars, rdVars, srvVars, dispVars, wsVars, lim, rq>>
    \/ \E u \in Uploaders : UploadOpen(u) /\ UNCHANGED <<kaVars, respVars, rdVars, srvVars, dispVars, wsVars, lim, rq>>
    \/ \E u \in Uploaders : UploadWrite(u) /\ UNCHANGED <<kaVars, respVars, rdVars, srvVars, dispVars, wsVars, lim, rq>>

SpecUpload == InitUpload /\ [][NextUpload]_vars

\* One buffer handed to the request parser, then one header lookup.
InitRequest ==
    /\ rq \in {RqStart(raw_data) : raw_data \in RawBuffers}
    /\ KaQuiet /\ RespQuiet /\ RdQuiet /\ SrvQuiet /\ DsQuiet /\ WsQuiet
    /\ LimQuiet /\ StoreQuiet

NextRequest ==
    \/ RqParse /\ UNCHANGED <<kaVars, respVars, rdVars, srvVars, dispVars, wsVars, lim, store>>
    \/ RqGetHeader /\ UNCHANGED <<kaVars, respVars, rdVars, srvVars, dispVars, wsVars, lim, store>>

SpecRequest == InitRequest /\ [][NextRequest]_vars

\* One request answered in either mode: keep-alive decision, response,
\* serialization.
InitDecoy ==
    /\ kaIn \in [opsec_mode : BOOLEAN, request : PreflightRequests]
    /\ kaOut = KaPending
    /\ RespQuiet /\ RdQuiet /\ SrvQuiet /\ DsQuiet /\ WsQuiet /\ SvcQuiet

NextDecoy ==
    \/ DecideKeepAlive /\ UNCHANGED <<respVars, rdVars, srvVars, dispVars, wsVars, svcVars>>
    \/ DriverRespond /\ UNCHANGED <<rdVars, srvVars, dispVars, wsVars, svcVars>>
    \/ DriverSerialize /\ UNCHANGED <<rdVars, srvVars, dispVars, wsVars, svcVars>>

SpecDecoy == InitDecoy /\ [][NextDecoy]_vars

(***************************************************************************)
(* Properties.                                                             *)
(***************************************************************************)
\* two texts are equal up to the case of their letters
EqIgnoreCase(a, b) ==
    /\ Len(a) = Len(b)
    /\ \A i \in DOMAIN a :
         \/ a[i] = b[i]
         \/ \E j \in DOMAIN UpperCase :
              {a[i], b[i]} = {UpperCase[j], LowerCase[j]}

\* C1: the keep-alive decision follows the table: decoy mode always
\* closes; otherwise a Connection header equal to "close" in any letter
\* case closes; HTTP/1.1 without a Connection header keeps alive; any other
\* version without a Connection header closes; HTTP/1.0 with
\* "Connection: keep-alive" keeps alive.
C1_KeepAliveTable ==
    kaOut.done =>
      LET r == kaIn.request
          has == "connection" \in DOMAIN r.headers
      IN  /\ kaIn.opsec_mode => ~kaOut.value
          /\ (has /\ EqIgnoreCase(r.headers["connection"], sClose))
               => ~kaOut.value
          /\ (~kaIn.opsec_mode /\ ~has /\ r.http_version = "HTTP/1.1")
               => kaOut.value
          /\ (~has /\ r.http_version # "HTTP/1.1") => ~kaOut.value
          /\ (~kaIn.opsec_mode /\ has /\ r.http_version = "HTTP/1.0"
                /\ r.headers["connection"] = sKeepAlive) => kaOut.value

C1_Witness ==
    /\ kaOut.done /\ ~kaOut.value /\ ~kaIn.opsec_mode
    /\ kaIn.request.http_version = "HTTP/1.1"
    /\ "connection" \in DOMAIN kaIn.request.headers
    /\ kaIn.request.headers["connection"] = <<"C","l","o","s","e">>

Last(seq) == seq[Len(seq)]

\* the request a worker last read has been processed to its return
Returned(w) == wk[w].requests_on_conn > 0 /\ wk[w].ret # "none"

\* a single complete response, written without error
ResponseWritten(w) ==
    /\ Len(wk[w].out) = 1
    /\ wk[w].out[1].kind = "response" /\ wk[w].out[1].ok

\* C2: a connection never serves more than KEEP_ALIVE_MAX requests: on its
\* KEEP_ALIVE_MAX-th request keep-alive is vetoed whatever the headers ask,
\* and the driver does not wait for another request.
C2_MaxRequestsPerConnection ==
    \A w \in Workers :
      /\ wk[w].requests_on_conn <= KEEP_ALIVE_MAX
      /\ wk[w].requests_on_conn = KEEP_ALIVE_MAX =>
           /\ ~wk[w].use_keep_alive
           /\ wk[w].pc # "await"
           /\ wk[w].ret # "keep"

C2_Witness ==
    \E w \in Workers :
      /\ wk[w].requests_on_conn = KEEP_ALIVE_MAX
      /\ wk[w].want_keep_alive /\ ~wk[w].use_keep_alive
      /\ ResponseWritten(w) /\ wk[w].out[1].status = 200
      /\ wk[w].pc = "idle" /\ wk[w].sock = "closed"

\* C3: requests on one connection are strictly sequential: whenever the
\* driver is about to read a further request, the response to the previous
\* one has been written completely.
C3_SequentialRequests ==
    \A w \in Workers :
      (wk[w].pc = "await" /\ wk[w].requests_on_conn > 0) =>
        ResponseWritten(w) /\ wk[w].ret = "keep" /\ ~wk[w].fault

C3_Witness ==
    \E w \in Workers :
      /\ wk[w].requests_on_conn = 2 /\ wk[w].pc = "process"

\* C4: an unexpected error while processing a request ends in the generic
\* 500 being sent and the decision close: the socket is closed, the worker
\* is back in the pool.
C4_FaultClosesConnection ==
    \A w \in Workers :
      wk[w].fault =>
        /\ wk[w].out # <<>>
        /\ Last(wk[w].out).kind = "response"
        /\ Last(wk[w].out).status = 500
        /\ wk[w].ret = "close"
        /\ wk[w].pc = "idle" /\ wk[w].sock = "closed"

\* a worker whose last connection ended in a fault can take the next one
C4_Witness ==
    \E w \in Workers :
      /\ wk[w].fault /\ wk[w].handler /\ wk[w].want_keep_alive
      /\ Last(wk[w].out).ok
      /\ running /\ ENABLED StartClient(w)

TooLarge(w) == wk[w].req.content_length > max_upload_size

\* C5 as stated: every request declaring a Content-Length above
\* max_upload_size is answered 413, the connection is closed and no handler
\* runs.
C5_Original ==
    \A w \in Workers :
      (Returned(w) /\ TooLarge(w)) =>
        /\ wk[w].out # <<>> /\ wk[w].out[1].status = 413
        /\ wk[w].ret = "close" /\ ~wk[w].handler

\* C5 amended: a request declaring a Content-Length above max_upload_size
\* never reaches a method handler and the connection is closed after it;
\* it is answered 413 unless it was rejected by the authenticator or the
\* throttle first (401, 429) or was taken over as a WebSocket upgrade.
C5_Amended ==
    \A w \in Workers :
      (Returned(w) /\ TooLarge(w)) =>
        /\ ~wk[w].handler
        /\ wk[w].ret = "close" /\ wk[w].pc = "idle" /\ wk[w].sock = "closed"
        /\ wk[w].out # <<>>
        /\ \/ cfg.auth /\ wk[w].out[1].status = 429
           \/ cfg.auth /\ ~wk[w].req.authOK /\ wk[w].out[1].status = 401
           \/ wk[w].req.upgrade /\ wk[w].upgraded
           \/ /\ ~wk[w].req.upgrade /\ ~wk[w].upgraded
              /\ wk[w].out[1].kind = "response"
              /\ wk[w].out[1].status = 413

C5_Witness ==
    \E w \in Workers :
      /\ Returned(w) /\ TooLarge(w) /\ wk[w].want_keep_alive
      /\ ResponseWritten(w) /\ wk[w].out[1].status = 413
      /\ wk[w].sock = "closed"

\* C6: with an authenticator configured, a request with rejected
\* credentials is answered 401 with a challenge, or 429, and 429 is sent
\* exactly when the peer's IP is throttled at the time of the check;
\* neither a handler nor the WebSocket upgrade runs and the connection is
\* closed.
C6_RejectedNeverDispatched ==
    /\ [](\A w \in Workers :
            (cfg.auth /\ wk[w].requests_on_conn > 0 /\ ~wk[w].req.authOK
               /\ wk[w].pc # "auth") =>
              /\ ~wk[w].handler /\ ~wk[w].upgraded
              /\ wk[w].ret = "close"
              /\ wk[w].pc = "idle" /\ wk[w].sock = "closed"
              /\ wk[w].out # <<>>
              /\ wk[w].out[1].kind = "response"
              /\ \/ wk[w].out[1].status = 401 /\ wk[w].out[1].challenge
                 \/ wk[w].out[1].status = 429)
    /\ [][\A w \in Workers :
            (cfg.auth /\ wk'[w].requests_on_conn = wk[w].requests_on_conn + 1)
              => ((wk'[w].out # <<>> /\ wk'[w].out[1].status = 429)
                    <=> failures[wk[w].ip] >= max_attempts)]_vars

C6_Witness ==
    \E w \in Workers :
      /\ cfg.auth /\ wk[w].requests_on_conn > 0 /\ ~wk[w].req.authOK
      /\ wk[w].req.upgrade
      /\ ResponseWritten(w) /\ wk[w].out[1].status = 429
      /\ wk[w].sock = "closed"

\* the received bytes hold a complete header block and at least the
\* declared number of body bytes
DeclaredLength(data) ==
    ScanContentLength(SubSeq(data.head, 1, Find(data.head, CRLFCRLF)))

CompleteMessage(data) ==
    /\ Find(data.head, CRLFCRLF) # -1
    /\ data.body >= DeclaredLength(data)

\* C7: for received bytes holding a complete header block and a body of at
\* least the declared Content-Length, the reader returns exactly
\* header-block-length + Content-Length bytes, never more.
C7_ExactLength ==
    (rd.state = "returned" /\ CompleteMessage(rd.chunks)) =>
      DataLen(rd.result)
        = Find(rd.chunks.head, CRLFCRLF) + 4 + DeclaredLength(rd.chunks)

\* C8: the reader returns one complete message or nothing, never a partial
\* message.
C8_CompleteOrEmpty ==
    rd.state = "returned" =>
      rd.result = NoData \/ CompleteMessage(rd.result)

\* C9 as stated: a response with a stream reference serializes with
\* "Connection: close" and without Keep-Alive for every keep_alive flag.
C9_Original ==
    (wire.built /\ wire.streamed) =>
      /\ wire.headers["Connection"] = "close"
      /\ "Keep-Alive" \notin DOMAIN wire.headers

\* C9 amended: a response with a stream reference serializes with
\* "Connection: close", and gains no Keep-Alive header, when the keep_alive
\* flag passed to build_headers/build is false; the stream reference does
\* not override the flag.
C9_Amended ==
    (wire.built /\ wire.streamed) =>
      /\ ~wire.keep_alive =>
           /\ wire.headers["Connection"] = "close"
           /\ "Keep-Alive" \in DOMAIN wire.headers => wire.hadKeepAliveHeader
      /\ wire.keep_alive => wire.headers["Connection"] = "keep-alive"

C9_Witness ==
    /\ wire.built /\ wire.streamed /\ ~wire.keep_alive
    /\ wire.headers["Connection"] = "close"
    /\ "Keep-Alive" \notin DOMAIN wire.headers
    /\ wire.headers["Content-Length"] = "70000"

\* C10: whenever a worker has returned from the connection driver, on any
\* exit path, the socket it was handed is closed.
C10_SocketClosedOnReturn ==
    \A w \in Workers : wk[w].pc = "idle" => wk[w].sock # "open"

C10_Witness ==
    \E w \in Workers :
      /\ wk[w].pc = "idle" /\ wk[w].sock = "closed"
      /\ wk[w].exit = "exception"

\* the request a worker is about to dispatch has no handler
Misses(w) ==
    /\ wk[w].pc = "process"
    /\ ~wk[w].req.upgrade /\ ~TooLarge(w)
    /\ ResolveHandler(cfg.opsec_mode, opsec_methods, wk[w].req.method,
                      wk[w].req.content_length > 0) = None

\* C11: a request whose method resolves to no handler is answered 405 with
\* an Allow header listing the registered methods in normal mode, and in
\* decoy mode with a 404 that has no Allow header and names none of the
\* server's own verbs; no handler is invoked.
C11_MissAnswered ==
    [][\A w \in Workers :
         (Misses(w) /\ wk'[w].pc # "process") =>
           /\ ~wk'[w].handler
           /\ wk'[w].out # <<>>
           /\ wk'[w].out[1].kind = "response"
           /\ IF cfg.opsec_mode
              THEN /\ wk'[w].out[1].status = 404
                   /\ wk'[w].out[1].allow = None
                   /\ wk'[w].out[1].acam = "GET, POST, PUT, PATCH, OPTIONS"
              ELSE /\ wk'[w].out[1].status = 405
                   /\ wk'[w].out[1].allow =
                        "GET, POST, PUT, PATCH, OPTIONS, FETCH, INFO, PING, NONE, NOTE, SMUGGLE"]_vars

C11_Witness ==
    \E w \in Workers :
      /\ ~cfg.opsec_mode /\ wk[w].req.method = "BOGUS"
      /\ wk[w].req.content_length = 1
      /\ ResponseWritten(w) /\ wk[w].out[1].status = 405
      /\ wk[w].out[1].allow # None /\ ~wk[w].handler

(***************************************************************************)
(* C12: in decoy mode the lookup resolves every standard token to its      *)
(* registered handler and each of the five generated tokens to the handler *)
(* of the operation the token was generated for.                           *)
(***************************************************************************)
C12_EachTokenOwnHandler ==
    (ds.phase = "done" /\ ds.opsec_mode) =>
        LET m == ds.lookup.method
        IN  /\ m \in DOMAIN method_handlers
                 => ds.lookup.handler = method_handlers[m]
            /\ \A op \in Operations :
                 m = ds.opsec_methods[op]
                   => ds.lookup.handler = OperationHandler[op]

(***************************************************************************)
(* C13: the five decoy tokens generated at start-up are pairwise distinct. *)
(***************************************************************************)
C13_TokensDistinct ==
    (ds.phase # "init" /\ ds.opsec_mode) =>
        \A a, b \in Operations :
            a # b => ds.opsec_methods[a] # ds.opsec_methods[b]

\* a token that is neither registered nor generated
UnknownToken ==
    /\ ds.lookup.method \notin DOMAIN method_handlers
    /\ \A op \in DOMAIN ds.opsec_methods :
         ds.lookup.method # ds.opsec_methods[op]

(***************************************************************************)
(* C14: in decoy mode an unrecognised token resolves to the upload handler *)
(* exactly when the request has a non-empty body and otherwise to no       *)
(* handler, answered 404; in normal mode an unrecognised token never       *)
(* resolves to a handler, body or not.                                     *)
(***************************************************************************)
C14_ImplicitUpload ==
    (ds.phase = "done" /\ UnknownToken) =>
        IF ds.opsec_mode
        THEN IF ds.lookup.has_body
             THEN ds.lookup.handler = "handle_opsec_upload"
             ELSE ds.lookup.handler = None /\ ds.lookup.status = 404
        ELSE ds.lookup.handler = None /\ ds.lookup.status = 405

C14_Witness ==
    /\ ds.phase = "done" /\ UnknownToken /\ ds.opsec_mode
    /\ ds.lookup.method = "EXECUTEENTRY" /\ ds.lookup.has_body
    /\ ds.lookup.handler = "handle_opsec_upload"

\* the tokens of a comma-separated header value, lower-cased
Tokens(value) ==
    LET parts == Split(Lower(value), <<",">>)
    IN  {Strip(parts[i]) : i \in DOMAIN parts}

(***************************************************************************)
(* C15: a request is taken as a WebSocket upgrade only if its Upgrade      *)
(* header equals "websocket" ignoring case, the comma-separated token list *)
(* of its Connection header contains the token "upgrade", and it carries a *)
(* non-empty Sec-WebSocket-Key.                                            *)
(***************************************************************************)
C15_UpgradeOnlyIfQualified ==
    (up.done /\ up.upgraded) =>
        /\ Lower(DictGet(up.headers, "upgrade", <<>>)) = sWebsocket
        /\ sUpgrade \in Tokens(DictGet(up.headers, "connection", <<>>))
        /\ Len(DictGet(up.headers, "sec-websocket-key", <<>>)) > 0

\* the bytes a complete frame takes: header, extended length, mask key and
\* payload
FrameLength(src) ==
    LET n == Len(src.payload)
    IN  2 + (IF n < 126 THEN 0 ELSE IF n < 65536 THEN 2 ELSE 8)
          + (IF src.masked THEN 4 ELSE 0) + n

(***************************************************************************)
(* C17: parse_ws_frame reports a frame only when the buffer holds the      *)
(* whole of it; for every proper prefix of a valid frame it returns None   *)
(* and never a frame with part of the payload.                             *)
(***************************************************************************)
C17_PrefixIsIncomplete ==
    fr.phase = "parsed" =>
        /\ fr.result.complete => Len(fr.buf) >= FrameLength(fr.src)
        /\ ~fr.whole => fr.result = NoFrame

C17_Witness ==
    /\ fr.phase = "parsed" /\ ~fr.whole /\ fr.src.masked
    /\ Len(fr.src.payload) = 126
    /\ Len(fr.buf) = FrameLength(fr.src) - 1
    /\ fr.result = NoFrame

(***************************************************************************)
(* C18: a frame built with opcode o and payload p, masked as a client      *)
(* builds it or unmasked by build_ws_frame, parses back to opcode o and    *)
(* payload p with a consumed count equal to the length of the frame, for   *)
(* the 7-bit, 16-bit and 64-bit length encodings.                          *)
(***************************************************************************)
C18_RoundTrip ==
    (fr.phase = "parsed" /\ fr.whole) =>
        /\ fr.result.complete
        /\ fr.result.opcode = fr.src.opcode
        /\ fr.result.payload = fr.src.payload
        /\ fr.result.consumed = Len(fr.buf)
        /\ Len(fr.buf) = FrameLength(fr.src)

C18_Witness ==
    /\ fr.phase = "parsed" /\ fr.whole /\ fr.src.masked
    /\ Len(fr.src.payload) = BigLen
    /\ fr.result.complete /\ fr.result.payload = fr.src.payload
    /\ fr.result.consumed = BigLen + 14

(***************************************************************************)
(* C16: once a request was taken as a WebSocket upgrade the WebSocket      *)
(* layer owns the socket: the driver reads, parses and dispatches no       *)
(* further HTTP request on the connection, no method handler runs and no   *)
(* HTTP response is written, and when the WebSocket loop has ended the     *)
(* socket is closed.                                                       *)
(***************************************************************************)
C16_UpgradeTakesOver ==
    \A w \in Workers :
        wk[w].upgraded =>
            /\ wk[w].pc \in {"ws", "idle"}
            /\ ~wk[w].handler
            /\ \A i \in DOMAIN wk[w].out :
                 wk[w].out[i].kind \in {"handshake", "ws_close"}
            /\ wk[w].pc = "idle"
                 => wk[w].sock = "closed" /\ wk[w].ret = "close"

C16_Witness ==
    \E w \in Workers :
        /\ wk[w].upgraded /\ wk[w].pc = "idle" /\ wk[w].sock = "closed"
        /\ Len(wk[w].out) = 2
        /\ wk[w].out[1].kind = "handshake" /\ wk[w].out[1].ok
        /\ wk[w].out[2].kind = "ws_close"

\* what is left of a sequence of frames when only text and binary frames
\* are kept: their payloads, in order
DataPayloads(frames) ==
    LET F[i \in 0..Len(frames)] ==
          IF i = 0 THEN <<>>
          ELSE IF frames[i].opcode \in {WS_TEXT, WS_BINARY}
               THEN Append(F[i - 1], frames[i].payload)
               ELSE F[i - 1]
    IN  F[Len(frames)]

(***************************************************************************)
(* C19: parsing a buffer of concatenated frames again and again, slicing   *)
(* off the consumed bytes each time, gives every frame once and in order;  *)
(* in the open loop the same holds however the bytes are split into        *)
(* chunks: the frames parsed so far are always the first frames sent,      *)
(* the payloads given to the message handler are the data payloads of      *)
(* these frames, and when all bytes have arrived and the loop is still     *)
(* open every frame has been parsed and nothing is left in the buffer.     *)
(***************************************************************************)
C19_FramesInOrder ==
    /\ (wsl.buf = <<>> /\ wsl.parsed = <<>>)
         => ParseAll(wsl.inflight) = wsl.script
    /\ IsPrefix(wsl.parsed, wsl.script)
    /\ wsl.handled = DataPayloads(wsl.parsed)
    /\ (wsl.state = "open" /\ wsl.inflight = <<>>)
         => wsl.parsed = wsl.script /\ wsl.buf = <<>>

C19_Witness ==
    /\ wsl.state = "open" /\ wsl.inflight = <<>>
    /\ Len(wsl.script) = MaxFrames
    /\ wsl.handled = <<<<97>>, <<1, 2>>, <<97>>>>
    /\ wsl.parsed = wsl.script

\* a close frame has been taken out of the buffer
CloseSeen == \E i \in DOMAIN wsl.parsed : wsl.parsed[i].opcode = WS_CLOSE

\* after a close frame: the function is left, a close frame was written in
\* reply, the close frame is the last frame parsed, and only the data
\* frames before it were handled
AfterClose(st) ==
    \A i \in DOMAIN st.parsed :
        st.parsed[i].opcode = WS_CLOSE =>
            /\ i = Len(st.parsed)
            /\ st.state = "returned" /\ st.exit = "close_frame"
            /\ st.handled = DataPayloads(SubSeq(st.script, 1, i - 1))
            /\ \E k \in DOMAIN st.sent :
                 /\ st.sent[k].frame = build_ws_close_frame
                 /\ \A j \in DOMAIN st.sent :
                      j > k => st.sent[j].frame = build_ws_close_frame

(***************************************************************************)
(* C20: when the loop takes a close frame out of the buffer the server     *)
(* writes a close frame in reply and leaves the loop: no later frame is    *)
(* processed and the message handler is not invoked again, whatever        *)
(* follows the close frame.                                                *)
(***************************************************************************)
C20_CloseEndsLoop ==
    [][/\ AfterClose(wsl) /\ AfterClose(wsl')
       /\ CloseSeen => wsl' = wsl]_vars

C20_Witness ==
    /\ CloseSeen /\ wsl.state = "returned"
    /\ Len(wsl.script) = MaxFrames
    /\ wsl.script[1].opcode = WS_TEXT /\ wsl.script[2].opcode = WS_CLOSE
    /\ wsl.script[3].opcode = WS_TEXT
    /\ wsl.handled = <<<<97>>>>
    /\ Len(wsl.sent) = 3

\* what the loop owes for a sequence of frames up to and including the
\* first close frame: a pong with the same payload for a ping, nothing for
\* a pong, one handler call for a text or binary frame
Owed(frames) ==
    LET F[i \in 0..Len(frames)] ==
          IF i = 0 THEN <<>>
          ELSE IF frames[i].opcode = WS_PING
               THEN Append(F[i - 1], [what |-> "pong", payload |-> frames[i].payload])
               ELSE IF frames[i].opcode \in {WS_TEXT, WS_BINARY}
               THEN Append(F[i - 1], [what |-> "message", payload |-> frames[i].payload])
               ELSE IF frames[i].opcode = WS_CLOSE
               THEN Append(F[i - 1], [what |-> "close", payload |-> <<>>])
               ELSE F[i - 1]
    IN  F[Len(frames)]

\* the frames written in reply to pings, in order
PongsSent ==
    LET pongs == SelectSeq(wsl.sent, LAMBDA e : e.frame[1] % 16 = WS_PONG)
    IN  [i \in DOMAIN pongs |-> pongs[i].frame]

PongsOwed ==
    LET pings == SelectSeq(wsl.parsed, LAMBDA f : f.opcode = WS_PING)
    IN  [i \in DOMAIN pings |-> <<128 + WS_PONG, Len(pings[i].payload)>> \o pings[i].payload]

(***************************************************************************)
(* C21: every ping frame the loop takes is answered with exactly one pong  *)
(* frame carrying the same payload, written before any later frame is      *)
(* processed; a pong frame produces no reply and no handler call; a text   *)
(* or binary frame is handed to the message handler exactly once.          *)
(***************************************************************************)
C21_PingPongMessage ==
    /\ wsl.log = Owed(wsl.parsed)
    /\ PongsSent = PongsOwed
    /\ wsl.handled = DataPayloads(wsl.parsed)

C21_Witness ==
    /\ wsl.state = "open" /\ Len(wsl.parsed) = MaxFrames
    /\ wsl.parsed[1].opcode = WS_PING /\ wsl.parsed[2].opcode = WS_PONG
    /\ wsl.parsed[3].opcode = WS_TEXT
    /\ wsl.log = <<[what |-> "pong", payload |-> <<7>>],
                   [what |-> "message", payload |-> <<97>>]>>
    /\ Len(wsl.sent) = 2 /\ wsl.sent[1].frame = <<138, 1, 7>>

(***************************************************************************)
(* C22: after the running flag is cleared the accept loop hands no further *)
(* connection to a worker, every connection loop and WebSocket loop        *)
(* observes the flag and exits, and start() returns only after every       *)
(* worker in flight has finished, no request being cancelled under way.    *)
(* The first part is the one a step of the server can break: once the flag *)
(* is cleared no connection is submitted to the executor any more, and     *)
(* the server is stopped only with every worker idle.                      *)
(***************************************************************************)
C22_NoHandoverAfterStop ==
    [][/\ ~running => Len(queue') <= Len(queue)
       /\ listener' = "stopped" => \A w \in Workers : wk'[w].pc = "idle"]_vars

\* what is_blocked(ip) would answer in state l
Blocked(l, ip) == limiter_is_blocked(l.failures, ip, l.now).result

\* the failures recorded for ip since its last reset that lie within the
\* cooldown window
InWindow(l, ip) ==
    LET times == DictGet(l.failures, ip, <<>>)
    IN  Cardinality({i \in DOMAIN times : times[i] > l.now - cooldown})

(***************************************************************************)
(* C23: is_blocked(ip) is false for an IP without recorded failures, true  *)
(* exactly when max_attempts failures have been recorded for it within the *)
(* cooldown window, and false again right after reset(ip); a call for one  *)
(* IP never changes the blocked status of another IP.                      *)
(***************************************************************************)
C23_BlockedFollowsHistory ==
    [][/\ \A ip \in IPs :
            /\ DictGet(lim'.failures, ip, <<>>) = <<>> => ~Blocked(lim', ip)
            /\ Blocked(lim', ip) <=> InWindow(lim', ip) >= max_attempts
       /\ (lim'.now = lim.now /\ lim'.last.op = "is_blocked")
            => lim'.last.result = Blocked(lim', lim'.last.ip)
       /\ (lim'.now = lim.now /\ lim'.last.op = "reset")
            => ~Blocked(lim', lim'.last.ip)
       /\ lim'.now = lim.now
            => \A ip \in IPs \ {lim'.last.ip} :
                  /\ Blocked(lim', ip) = Blocked(lim, ip)
                  /\ InWindow(lim', ip) = InWindow(lim, ip)]_vars

C23_Witness ==
    /\ lim.last = [op |-> "is_blocked", ip |-> "ip1", result |-> TRUE]
    /\ Len(lim.failures["ip1"]) = max_attempts
    /\ "ip2" \in DOMAIN lim.failures /\ ~Blocked(lim, "ip2")
    /\ lim.now > 0

\* a file of the uploads directory that no upload under way has open
AtRest(name) ==
    /\ name \in DOMAIN store.files
    /\ \A u \in Uploaders :
         store.up[u].pc = "open" => store.up[u].path # name

(***************************************************************************)
(* C24: an upload never overwrites a file that already exists in the       *)
(* uploads directory: whatever the interleaving of uploads on different    *)
(* connections, a file that is there and that no upload has open stays     *)
(* there with its content.                                                 *)
(***************************************************************************)
C24_NoOverwrite ==
    [][\A name \in DOMAIN store.files :
          AtRest(name) => /\ name \in DOMAIN store'.files
                          /\ store'.files[name] = store.files[name]]_vars

\* the headers _finalize_headers writes whatever the caller has set
AlwaysWritten(keep_alive) ==
    {"Server", "Date", "Connection"}
      \cup (IF keep_alive THEN {"Keep-Alive"} ELSE {})

\* the headers _set_cors_headers writes only where the caller has set none
CorsTriad ==
    {"Access-Control-Allow-Origin", "Access-Control-Allow-Methods",
     "Access-Control-Allow-Headers"}

\* a step that serializes the response
Serializes == wire' # wire

\* C25 as stated: standard headers are injected at serialization only where
\* the caller has not set that header: serialization leaves every header
\* the caller set unchanged.
C25_Original ==
    [][Serializes =>
         \A k \in DOMAIN resp.headers :
            wire'.headers[k] = resp.headers[k]]_vars

(***************************************************************************)
(* C25 amended: a response carries no standard header before it is         *)
(* serialized.  Serialization writes Server, Date and Connection (and      *)
(* Keep-Alive when the connection is kept alive) whatever the caller has   *)
(* set, adds each header of the CORS triad only where the caller has set   *)
(* none, and leaves every other header the caller set unchanged.           *)
(***************************************************************************)
C25_Amended ==
    [][/\ respOps = 0 => resp.headers = EmptyDict
       /\ Serializes =>
            /\ wire'.headers = resp'.headers
            /\ AlwaysWritten(wire'.keep_alive) \cup CorsTriad
                 \subseteq DOMAIN wire'.headers
            /\ wire'.headers["Server"]
                 \in {"nginx", "ExperimentalHTTPServer/" \o Version}
            /\ wire'.headers["Date"] = "now"
            /\ wire'.headers["Connection"]
                 = (IF wire'.keep_alive THEN "keep-alive" ELSE "close")
            /\ wire'.keep_alive =>
                 wire'.headers["Keep-Alive"] = "timeout=15, max=100"
            /\ \A k \in DOMAIN resp.headers :
                 k \notin AlwaysWritten(wire'.keep_alive)
                   => wire'.headers[k] = resp.headers[k]]_vars

\* a serialized response whose caller set a CORS header, Allow and a body
C25_Witness ==
    /\ wire.built /\ respOps = MaxRespOps
    /\ wire.headers["Access-Control-Allow-Origin"] = "null"
    /\ "Access-Control-Allow-Methods" \in DOMAIN wire.headers
    /\ wire.headers["Server"] = "nginx"
    /\ wire.headers["Connection"] = "close"

\* C26: after any sequence of set_body and set_file calls on one response
\* at most one of the in-memory body and the stream reference is populated,
\* and the Content-Length header describes the one that is.
C26_BodyXorStream ==
    /\ ~(resp.body # <<>> /\ resp.stream_path # None)
    /\ resp.body # <<>> =>
         DictGet(resp.headers, "Content-Length", "") = ToString(Len(resp.body))
    /\ resp.stream_path # None =>
         DictGet(resp.headers, "Content-Length", "")
           = ToString(FileSize(resp.stream_path))

\* the header part of the buffer is not valid UTF-8
Undecodable(raw_data) == xFF \in Range(HeaderPart(raw_data))

\* the lines of the header part; the first one is the request line
LinesOf(raw_data) == Split(HeaderPart(raw_data), EOL)

\* the number of space-separated tokens of a line
TokenCount(line) == 1 + Cardinality({i \in DOMAIN line : line[i] = " "})

\* the header lines whose name, up to the first colon, is name in any casing
Occurrences(raw_data, name) ==
    {i \in 2..Len(LinesOf(raw_data)) :
        LET line == LinesOf(raw_data)[i]
        IN  /\ Len(line) > Len(name)
            /\ line[Len(name) + 1] = ":"
            /\ EqIgnoreCase(SubSeq(line, 1, Len(name)), name)}

(***************************************************************************)
(* C27: parsing a request never raises.  Whatever the buffer, the          *)
(* constructor returns a request; with an undecodable header part or a     *)
(* request line of fewer than three tokens the method, path, query and     *)
(* version keep their empty defaults, with an undecodable header part the  *)
(* header map stays empty too, a line without a colon adds no header, and  *)
(* the body is what follows the first blank line.                          *)
(***************************************************************************)
C27_ParseNeverRaises ==
    /\ rq.phase # "raised"
    /\ rq.phase \in {"parsed", "answered"} =>
         /\ (Undecodable(rq.raw) \/ TokenCount(LinesOf(rq.raw)[1]) < 3) =>
              /\ rq.req.method = <<>> /\ rq.req.path = <<>>
              /\ rq.req.http_version = <<>>
              /\ rq.req.query_params = EmptyDict
         /\ Undecodable(rq.raw) => rq.req.headers = EmptyDict
         /\ \A k \in DOMAIN rq.req.headers : Occurrences(rq.raw, k) # {}
         /\ rq.req.body
              = (LET halves == SplitOnce(rq.raw, EOL \o EOL)
                 IN  IF Len(halves) = 2 THEN halves[2] ELSE <<>>)

\* an undecodable request line followed by a header line and a body
C27_Witness ==
    /\ rq.phase = "parsed" /\ Undecodable(rq.raw)
    /\ Len(LinesOf(rq.raw)) = 2
    /\ rq.req.body = <<"b">>
    /\ rq.req.method = <<>> /\ rq.req.headers = EmptyDict

\* the stripped value of the last header line named name, "" if none
LastValue(raw_data, name) ==
    LET hits == Occurrences(raw_data, name)
        last == CHOOSE i \in hits : \A j \in hits : j <= i
    IN  IF hits = {} THEN <<>>
        ELSE Strip(SubSeq(LinesOf(raw_data)[last], Len(name) + 2,
                          Len(LinesOf(raw_data)[last])))

(***************************************************************************)
(* C28: header lookup on a parsed request is case-insensitive and the last *)
(* occurrence wins: on a request whose parse ran to its end, a lookup      *)
(* returns the value of the last header line carrying that name in any     *)
(* letter-casing, and two names that differ only in casing get the same    *)
(* answer.                                                                 *)
(***************************************************************************)
C28_LookupIgnoresCase ==
    rq.phase = "answered" =>
      /\ \A name \in LookupNames :
           EqIgnoreCase(name, rq.asked) =>
             get_header(rq.req, name, <<>>) = rq.got
      /\ ~ParseTry(rq.raw).raised => rq.got = LastValue(rq.raw, rq.asked)

\* "X-Foo: bar" then "x-foo:baz ", looked up as "X-FOO"
C28_Witness ==
    /\ rq.phase = "answered"
    /\ rq.asked = <<"X", "-", "F", "O", "O">>
    /\ rq.got = <<"b", "a", "z">>
    /\ Cardinality(Occurrences(rq.raw, rq.asked)) = 2
    /\ DOMAIN rq.req.headers = {<<"x", "-", "f", "o", "o">>}

StandardVerbs ==
    {"GET", "HEAD", "POST", "PUT", "PATCH", "DELETE", "OPTIONS"}

\* the lists of standard verbs the allowed-methods header may carry
StandardLists ==
    {base \o extra :
       base \in {<<"GET", "POST", "PUT", "PATCH", "OPTIONS">>, OptionsDecoy},
       extra \in {<<>>} \cup {<<v>> : v \in StandardVerbs}}

\* the serialized response of a server in decoy mode
DecoyResponse == wire.built /\ kaIn.opsec_mode

\* C29 as stated: in decoy mode every serialized response carries the
\* generic banner, advertises only standard verbs in the CORS
\* allowed-methods header, and carries neither an
\* Access-Control-Expose-Headers nor an X-Request-Id header.
C29_Original ==
    DecoyResponse =>
      /\ wire.headers["Server"] = "nginx"
      /\ \E list \in StandardLists :
           wire.headers["Access-Control-Allow-Methods"] = Join(list, ", ")
      /\ "Access-Control-Expose-Headers" \notin DOMAIN wire.headers
      /\ "X-Request-Id" \notin DOMAIN wire.headers

(***************************************************************************)
(* C29 amended: in decoy mode every serialized response carries the        *)
(* generic banner and neither an Access-Control-Expose-Headers nor an      *)
(* X-Request-Id header; its CORS allowed-methods header lists standard     *)
(* verbs only, except that the answer to a preflight lists GET, POST, PUT, *)
(* OPTIONS followed by the method the client named in                      *)
(* Access-Control-Request-Method, whatever that method is.                 *)
(***************************************************************************)
C29_Amended ==
    DecoyResponse =>
      /\ wire.headers["Server"] = "nginx"
      /\ \/ \E list \in StandardLists :
              wire.headers["Access-Control-Allow-Methods"] = Join(list, ", ")
         \/ /\ wire.status_code = 204
            /\ "access-control-request-method" \in DOMAIN kaIn.request.headers
            /\ wire.headers["Access-Control-Allow-Methods"]
                 = Join(Append(OptionsDecoy,
                               kaIn.request.headers["access-control-request-method"]),
                        ", ")
      /\ "Access-Control-Expose-Headers" \notin DOMAIN wire.headers
      /\ "X-Request-Id" \notin DOMAIN wire.headers

\* a decoy-mode preflight for NOTE, answered and serialized
C29_Witness ==
    /\ DecoyResponse /\ wire.status_code = 204
    /\ wire.headers["Server"] = "nginx"
    /\ wire.headers["Access-Control-Allow-Methods"]
         = "GET, POST, PUT, OPTIONS, NOTE"
    /\ "X-Request-Id" \notin DOMAIN wire.headers

\* the chunk writes among what a worker wrote for its last request
ChunkWrites(w) == SelectSeq(wk[w].out, LAMBDA e : e.kind = "chunk")

\* the worker's last request was answered with a streamed response
Streamed(w) == wk[w].out # <<>> /\ wk[w].out[1].kind = "headers"

RECURSIVE TotalSize(_)
TotalSize(entries) ==
    IF entries = <<>> THEN 0
    ELSE entries[1].size + TotalSize(Tail(entries))

(***************************************************************************)
(* C30: a response with a stream reference is sent as a header block that  *)
(* says Connection: close and carries no Keep-Alive header, written first; *)
(* the file follows in chunks of STREAM_CHUNK bytes, in order and without  *)
(* gaps, the last one shorter, up to the end of the file unless a read or  *)
(* a write fails; no chunk is written before the header block or after a   *)
(* failed write; and the driver returns close whatever the request asked.  *)
(***************************************************************************)
C30_StreamedResponse ==
    \A w \in Workers :
      LET out == wk[w].out
          chunks == ChunkWrites(w)
      IN  /\ \A i \in DOMAIN out :
               /\ out[i].kind = "headers" =>
                    /\ i = 1 /\ out[i].conn = "close" /\ ~out[i].keepAliveHdr
               /\ out[i].kind = "chunk" =>
                    /\ i > 1 /\ Streamed(w)
                    /\ \A j \in 1..(i - 1) : out[j].ok
                    /\ out[i] = chunks[i - 1]
          /\ \A i \in DOMAIN chunks :
               /\ chunks[i].offset = (i - 1) * STREAM_CHUNK
               /\ chunks[i].size > 0 /\ chunks[i].size <= STREAM_CHUNK
               /\ i < Len(chunks) => chunks[i].size = STREAM_CHUNK
          /\ (Streamed(w) /\ ~wk[w].fault) =>
               /\ \A i \in DOMAIN out : out[i].ok
               /\ Len(out) = 1 + Len(chunks)
               /\ TotalSize(chunks) \in {FileSize(f) : f \in Files}
          /\ (Streamed(w) /\ Returned(w)) => wk[w].ret = "close"

\* a keep-alive request answered with a file of two chunks, sent whole
C30_Witness ==
    \E w \in Workers :
      /\ Streamed(w) /\ Returned(w) /\ ~wk[w].fault
      /\ wk[w].want_keep_alive /\ wk[w].use_keep_alive
      /\ Len(ChunkWrites(w)) = 2
      /\ ChunkWrites(w)[2].offset = STREAM_CHUNK
      /\ ChunkWrites(w)[2].size = 70000 - STREAM_CHUNK
      /\ wk[w].ret = "close" /\ wk[w].sock = "closed"

\* the reader is past the budget of the phase it is in, the body phase
\* counted from the moment the header block was complete
PastPhaseBudget(r) ==
    \/ ~r.headers_received /\ r.elapsed > HEADER_TIMEOUT
    \/ r.headers_received /\ r.elapsed - r.headers_at > BODY_TIMEOUT

(***************************************************************************)
(* C31: the reader does not go on reading beyond the header-phase budget   *)
(* while the header block is incomplete, nor beyond the body-phase budget, *)
(* counted from when the headers completed, once it is complete: past      *)
(* either budget its next step is to return empty without another recv.    *)
(***************************************************************************)
C31_BudgetsBoundReading ==
    [][(rd.state = "reading" /\ PastPhaseBudget(rd)) =>
         /\ rd'.state = "returned" /\ rd'.result = NoData
         /\ rd'.elapsed = rd.elapsed /\ rd'.total_size = rd.total_size]_vars

\* the reader is past the budget of the phase it is in, both counted from
\* the entry of the function
PastBudget(r) ==
    \/ ~r.headers_received /\ r.elapsed > HEADER_TIMEOUT
    \/ r.headers_received /\ r.elapsed > HEADER_TIMEOUT + BODY_TIMEOUT

(***************************************************************************)
(* C31, as the code has it: the reader always leaves its loop. Both budgets *)
(* are counted from the entry of the function: while the header block is   *)
(* incomplete no recv is started more than HEADER_TIMEOUT after entry, and *)
(* once it is complete none more than HEADER_TIMEOUT + BODY_TIMEOUT after  *)
(* entry; past its budget the reader's next step is to return empty        *)
(* without another recv, and time only passes in a recv.                   *)
(***************************************************************************)
C31_Amended ==
    [][/\ (rd.state = "reading" /\ PastBudget(rd)) =>
            /\ rd'.state = "returned" /\ rd'.result = NoData
            /\ rd'.elapsed = rd.elapsed /\ rd'.total_size = rd.total_size
       /\ rd'.elapsed > rd.elapsed =>
            /\ rd.state = "reading" /\ ~PastBudget(rd)
            /\ rd'.elapsed <= rd.elapsed + rd.timeout
       /\ rd.state # "reading" => rd' = rd]_vars

C31_Witness ==
    /\ rd.state = "returned" /\ rd.result = NoData
    /\ rd.headers_received /\ rd.headers_at = 0
    /\ rd.elapsed > HEADER_TIMEOUT + BODY_TIMEOUT
    /\ rd.total_size <= max_upload_size + CAP_SLACK

\* the hard cap on the bytes of one read
ByteCap == max_upload_size + CAP_SLACK

(***************************************************************************)
(* C32: the reader never holds more than one recv beyond the cap of        *)
(* max_upload_size plus 65536 bytes: the recv that takes the total above   *)
(* the cap makes it return empty at once, and what it returns to the       *)
(* driver is never longer than the cap.                                    *)
(***************************************************************************)
C32_HardByteCap ==
    /\ rd.state = "reading" => rd.total_size <= ByteCap
    /\ rd.total_size > ByteCap =>
         /\ rd.state = "returned" /\ rd.result = NoData
         /\ rd.total_size <= ByteCap + RECV_SIZE
    /\ rd.state = "returned" => DataLen(rd.result) <= ByteCap

\* a body of 70000 bytes: the second recv crosses the cap
C32_Witness ==
    /\ rd.state = "returned" /\ rd.result = NoData
    /\ rd.total_size > ByteCap
    /\ rd.headers_received /\ rd.content_length = 70000
    /\ rdScript.body = 70000

(***************************************************************************)
(* C33: in the WebSocket open loop, whenever no data arrives within the    *)
(* idle window the server sends one ping frame and keeps waiting, with     *)
(* nothing else changed; if that ping cannot be sent the loop terminates   *)
(* (after the close frame of the finally block), so a wait on a dead peer  *)
(* ends.                                                                   *)
(***************************************************************************)
C33_IdlePing ==
    [][(wsl'.pings # wsl.pings \/ (wsl.exit = "" /\ wsl'.exit = "ping_failed")) =>
         /\ wsl.state = "open"
         /\ \/ wsl' = [wsl EXCEPT !.pings = @ + 1]
            \/ /\ wsl'.state = "returned" /\ wsl'.exit = "ping_failed"
               /\ wsl'.pings = wsl.pings
               /\ wsl'.parsed = wsl.parsed /\ wsl'.handled = wsl.handled
               /\ wsl'.buf = wsl.buf /\ wsl'.inflight = wsl.inflight
               /\ wsl'.sent = Append(wsl.sent, Written(build_ws_close_frame, TRUE))]_vars

C33_Witness ==
    /\ wsl.pings = MaxPings /\ wsl.state = "open"
    /\ wsl.buf # <<>> /\ wsl.inflight # <<>>
    /\ wsl.handled = <<<<97>>>>

\* the close frames written on the connection
CloseFramesSent == SelectSeq(wsl.sent, LAMBDA e : e.frame = build_ws_close_frame)

(***************************************************************************)
(* C37: on one WebSocket connection the server sends at most one close     *)
(* frame, and it is the last frame the server sends, on every way the open *)
(* loop can end.                                                           *)
(***************************************************************************)
C37_OneCloseFrameLast ==
    /\ Len(CloseFramesSent) <= 1
    /\ \A i \in DOMAIN wsl.sent :
         wsl.sent[i].frame = build_ws_close_frame => i = Len(wsl.sent)

\* a write of the loop that failed
FailedWrites == {i \in DOMAIN wsl.sent : ~wsl.sent[i].ok}

(***************************************************************************)
(* C34: on any unrecoverable I/O error in the WebSocket open loop (a       *)
(* failed read, a failed pong, ping or message-reply write) the loop       *)
(* attempts a best-effort close frame and terminates: after a failed write *)
(* no further frame is processed and no further handler call is made, so   *)
(* the failed write is followed by the close frame only and the loop has   *)
(* ended.                                                                  *)
(***************************************************************************)
C34_FailedWriteEndsLoop ==
    /\ wsl.exit \in {"exception", "pong_failed", "ping_failed"} =>
         /\ wsl.state = "returned"
         /\ wsl.sent[Len(wsl.sent)].frame = build_ws_close_frame
    /\ \A i \in FailedWrites :
         /\ wsl.state = "returned"
         /\ i = Len(wsl.sent) - 1
         /\ wsl.sent[Len(wsl.sent)].frame = build_ws_close_frame

\* the writes of worker w that carry a header block
HeaderBlocksOf(w) ==
    {i \in DOMAIN wk[w].out : wk[w].out[i].kind \in {"response", "headers"}}

(***************************************************************************)
(* C35: the Connection header the driver writes always matches what it     *)
(* then does with the socket: every response after which the driver closes *)
(* the connection (_process_request returned False) carries                *)
(* "Connection: close", and a response carrying "Connection: keep-alive"   *)
(* is one after which the driver keeps the connection (it returned True).  *)
(***************************************************************************)
C35_ConnectionHeaderMatches ==
    \A w \in Workers :
      Returned(w) =>
        \A i \in HeaderBlocksOf(w) :
          /\ wk[w].ret = "close" => wk[w].out[i].conn = "close"
          /\ wk[w].out[i].conn = "keep-alive" => wk[w].ret = "keep"

(***************************************************************************)
(* C36: for each request the driver writes at most one HTTP response to    *)
(* the socket: once the header block of a response has been written, no    *)
(* second status line (in particular the generic 500 of the fault path) is *)
(* written for the same request, also when reading or sending a streamed   *)
(* file fails part-way.                                                    *)
(***************************************************************************)
C36_OneResponsePerRequest ==
    \A w \in Workers :
      \A i, j \in HeaderBlocksOf(w) :
        (i < j /\ wk[w].out[i].ok) => ~wk[w].out[j].ok

(***************************************************************************)
(* C38: every socket returned by accept() is eventually closed by the      *)
(* server, including connections that were submitted to the worker pool    *)
(* but had not yet started on a worker when shutdown began: once start()   *)
(* has returned no accepted connection is left open, neither on a worker   *)
(* nor dropped from the queue without a close.                             *)
(***************************************************************************)
C38_EveryAcceptedSocketClosed ==
    listener = "stopped" =>
      /\ queue = <<>> /\ orphans = 0
      /\ \A w \in Workers : wk[w].sock # "open"

(***************************************************************************)
(* C39: with an authenticator configured, for any interleaving of          *)
(* connections from the same IP, at most max_attempts failed credential    *)
(* verifications are performed for that IP within one cooldown window:     *)
(* the failures recorded for an IP and still inside the window never       *)
(* number more than max_attempts.                                          *)
(***************************************************************************)
C39_AttemptsBounded ==
    \A ip \in IPs : failures[ip] <= max_attempts

====
